---- MODULE Spec2Model ----
(***************************************************************************)
(* Model of the Redbeam export pipeline (src/redbeam_scraper.py):          *)
(* main() = setup_driver -> login_to_redbeam -> export_reports_data ->     *)
(* archive (get_desktop_path + shutil.move), with the except/finally of    *)
(* main().  Time is counted in tenths of a second so that the sub-second   *)
(* sleeps of the keyboard navigation are integers.  The login form is a    *)
(* document of elements on which the locator lists of login_to_redbeam     *)
(* are evaluated; SpecLogin runs the login on every small document,        *)
(* SpecSchedule runs main() as the daily job of src/schedule_daily.py.     *)
(* The Reports page is a document of buttons on which the three discovery  *)
(* strategies of export_reports_data are evaluated; SpecExport runs the    *)
(* export on every small page.  SpecArchive starts from an output          *)
(* directory that already holds reports, SpecCwd from a working directory  *)
(* that may be the output directory.                                       *)
(***************************************************************************)
EXTENDS Integers, Sequences, FiniteSets, TLC

VARIABLES
    pc,            \* position of the single thread inside main() and its callees
    now,           \* wall clock, tenths of a second since midnight of `today`
    today,         \* calendar date of that midnight, [Y, M, D]
    driver,        \* main()'s local `driver`: "None", or the session setup_driver returned
    quitCount,     \* number of driver.quit() calls
    setupLog,      \* attempts made by setup_driver: sequence of <<strategy, succeeded>>
    stages,        \* stages started so far, in order
    failedStage,   \* stage in which the first exception of the run was raised
    raisedBy,      \* message of that first exception, <<>> if none
    exc,           \* exception currently propagating (outermost message first), <<>> if none
    outcome,       \* "running", "returned", "raised"
    returned,      \* value main() returned
    url,           \* driver.current_url, as a sequence of tokens
    dl,            \* download directory: file name -> modification time
    ar,            \* output directory: [exists, files]
    downloaded_file, \* export_reports_data's result / main()'s downloaded_file
    wait_time,     \* the polling loop's wait_time (seconds)
    polls,         \* directory scans done by the polling loop
    allStale,      \* every scan so far saw no .csv file or only ones older than the window
    exportTime,    \* clock when the ENTER key event was sent, -1 before
    keys,          \* key events sent by the keyboard navigation
    screenshots,   \* driver.save_screenshot calls, in order
    cwd,           \* the working directory of the process
    cwdFiles,      \* files written under relative names: screenshots and page-source dumps
    final_path,    \* main()'s final_path
    archivedAt,    \* datetime.now() read by main() for the timestamp
    reports,       \* completed moves, in order: [at, name, content]
    writes,        \* files written into the download directory by the browser or other programs
    dom,           \* the document of the login form: the names of its elements, in order
    username_field,  \* login_to_redbeam's local of that name: [el, via]
    continue_button, \* likewise
    password_field,  \* likewise
    login_button,    \* likewise
    loginLog,      \* what login_to_redbeam did with the page: <<operation, target, argument>>
    menuStrategies, \* ways of choosing the CSV entry of the export menu tried so far
    reportsDom,    \* the Reports page: the names of its buttons, in document order
    export_button, \* export_reports_data's local of that name: a button, or "None"
    exportLog,     \* discovery attempts and clicks: <<operation, strategy, button>>
    sched,         \* the scheduler process: "none", "waiting", "running", "crashed", "stopped"
    runs           \* jobs the scheduler has started

vars == <<pc, now, today, cwd, driver, quitCount, setupLog, stages, failedStage, raisedBy,
          exc, outcome, returned, url, dl, ar, downloaded_file, wait_time, polls,
          allStale, exportTime, keys, screenshots, cwdFiles, final_path, archivedAt, reports,
          writes, dom, username_field, continue_button, password_field, login_button,
          loginLog, menuStrategies, reportsDom, export_button, exportLog, sched, runs>>

loginVars == <<dom, username_field, continue_button, password_field, login_button, loginLog>>
schedVars == <<sched, runs>>
exportVars == <<reportsDom, export_button, exportLog>>

None == "None"

\* ---------------------------------------------------------------- bounds
MaxWrites == 1

\* elements of a document of the login form
MaxElems == 2

\* jobs the scheduler starts
MaxRuns == 2

\* buttons of a Reports page
MaxButtons == 2

\* ---------------------------------------------------------------- time
Sec(n) == n * 10

IsLeap(y) == (y % 4 = 0 /\ y % 100 # 0) \/ y % 400 = 0

DaysInMonth(y, m) ==
    IF m \in {4, 6, 9, 11} THEN 30
    ELSE IF m = 2 THEN (IF IsLeap(y) THEN 29 ELSE 28)
    ELSE 31

NextDay(d) ==
    IF d.D < DaysInMonth(d.Y, d.M) THEN [d EXCEPT !.D = d.D + 1]
    ELSE IF d.M < 12 THEN [Y |-> d.Y, M |-> d.M + 1, D |-> 1]
    ELSE [Y |-> d.Y + 1, M |-> 1, D |-> 1]

RECURSIVE AddDays(_, _)
AddDays(d, n) == IF n = 0 THEN d ELSE AddDays(NextDay(d), n - 1)

\* datetime.now(): the naive local date and time, microseconds dropped by the format
DatetimeNow(date, t) ==
    LET s   == t \div 10
        day == AddDays(date, s \div 86400)
        r   == s % 86400
    IN  [Y |-> day.Y, M |-> day.M, D |-> day.D,
         h |-> r \div 3600, m |-> (r % 3600) \div 60, s |-> r % 60]

Digit(n) == <<"0", "1", "2", "3", "4", "5", "6", "7", "8", "9">>[n + 1]

RECURSIVE PadNoZeros(_, _)
\* mutant: the decimal of n without the leading zeros
PadNoZeros(n, w) ==
    IF n < 10 THEN <<Digit(n)>> ELSE Append(PadNoZeros(n \div 10, w), Digit(n % 10))

RECURSIVE Pad(_, _)
\* zero-padded decimal of n on w characters (%Y, %m, %d, %H, %M, %S)
Pad(n, w) == IF w = 0 THEN <<>> ELSE Append(Pad(n \div 10, w - 1), Digit(n % 10))

\* strftime("%Y%m%d_%H%M%S")
strftime(dt) ==
    Pad(dt.Y, 4) \o Pad(dt.M, 2) \o Pad(dt.D, 2) \o <<"_">> \o
    Pad(dt.h, 2) \o Pad(dt.m, 2) \o Pad(dt.s, 2)

\* f"redbeam_data_{timestamp}.csv"
filename(timestamp) == <<"redbeam_data_">> \o timestamp \o <<".csv">>

\* ---------------------------------------------------------------- URLs
\* A URL is the sequence of its tokens (host labels, then path segments);
\* Python's `needle in url` is a contiguous-subsequence test.
Contains(u, needle) ==
    \E i \in 1..(Len(u) - Len(needle) + 1) : SubSeq(u, i, i + Len(needle) - 1) = needle

REDBEAM_URL == <<"redbeam", "com", "login">>
REDBEAM_AUTH0_LOGIN == <<"login", "app", "redbeam", "com", "u", "login", "identifier">>
REDBEAM_REPORTS_PAGE_URL == <<"app", "redbeam", "com", "g", "0", "Reports", "All Assets">>

\* pages the browser can be on after the credentials were submitted
PasswordPage == <<"login", "app", "redbeam", "com", "u", "login", "password">>
AppHome == <<"app", "redbeam", "com", "g", "0">>
MarketingHome == <<"redbeam", "com">>
URLs == {REDBEAM_URL, REDBEAM_AUTH0_LOGIN, PasswordPage, AppHome, MarketingHome}

\* ---------------------------------------------------------------- files
\* A file name is <<stem, extension>>; the content of a file is identified by
\* the write that produced it, <<name, time of the write>>.
Names == {<<"AllAssets", "csv">>, <<"inventory", "csv">>, <<"AllAssets", "xlsx">>}

\* age, in seconds, of the files a run may find in the download directory at its start
LeftoverAge == [n \in Names |->
    IF n = <<"AllAssets", "csv">> THEN 5 ELSE IF n = <<"inventory", "csv">> THEN 70 ELSE 20]

output_dir == "redbeam scraper"

\* a working directory other than the output directory
script_dir == "scripts"

NoPath == <<>>

\* download_dir.glob("*.csv")
glob(dir) == {n \in DOMAIN dir : n[2] = "csv"}

\* mutant: the sort without reverse=True, csv_files[0] is a file of least mtime
LeastRecent(dir, files) == {f \in files : \A g \in files : dir[f] <= dir[g]}

\* csv_files.sort(key=st_mtime, reverse=True); csv_files[0]: a file of greatest mtime
MostRecent(dir, files) == {f \in files : \A g \in files : dir[g] <= dir[f]}

max_wait == 60
poll_sleep == 2
freshness == 60

\* mutant: the window taken in minutes
IsFreshMinutes(file_age) == file_age < Sec(freshness) * 60

\* file_age < 60
IsFresh(file_age) == file_age < Sec(freshness)

Remove(dir, n) == [m \in (DOMAIN dir) \ {n} |-> dir[m]]
Put(dir, n, t) == [m \in (DOMAIN dir) \cup {n} |-> IF m = n THEN t ELSE dir[m]]

\* the archive's files are records [name, content], at most one per name
PutFile(files, name, content) ==
    {f \in files : f.name # name} \cup {[name |-> name, content |-> content]}

\* mutant: shutil.copy in place of shutil.move
MoveCopies(dir, arch, src, dstName) ==
    [dl |-> dir,
     ar |-> [arch EXCEPT !.files = PutFile(@, dstName, <<src, dir[src]>>)]]

\* mutant: the output directory is emptied before the file is moved into it
MoveIntoEmptiedDir(dir, arch, src, dstName) ==
    [dl |-> Remove(dir, src),
     ar |-> [arch EXCEPT !.files = PutFile({}, dstName, <<src, dir[src]>>)]]

\* shutil.move(src, dst): rename, or copy then delete; an existing dst is replaced
Move(dir, arch, src, dstName) ==
    [dl |-> Remove(dir, src),
     ar |-> [arch EXCEPT !.files = PutFile(@, dstName, <<src, dir[src]>>)]]

\* shutil.move failing after the copy, before the source is deleted
MoveHalf(dir, arch, src, dstName) ==
    [dl |-> dir,
     ar |-> [arch EXCEPT !.files = PutFile(@, dstName, <<src, dir[src]>>)]]

\* ---------------------------------------------------------------- the login form
\* An element of the document: its tag, its attributes, text() and the answers
\* of is_displayed() and is_enabled().  An attribute value is the sequence of
\* its tokens ("username" is <<"user", "name">>), <<>> when the attribute is
\* absent, so that [id*='user'] and contains(@id, 'user') are substring tests.
NoAttr == <<>>

Element(el, tag) ==
    [el |-> el, tag |-> tag, type |-> NoAttr, name |-> NoAttr, id |-> NoAttr,
     class |-> NoAttr, autocomplete |-> NoAttr, placeholder |-> NoAttr, text |-> NoAttr,
     value |-> NoAttr, primary |-> NoAttr, displayed |-> TRUE, enabled |-> TRUE]

\* <input type="text" name="username" id="username" autocomplete="username">
e_username ==
    [Element("e_username", "input") EXCEPT !.type = <<"text">>, !.name = <<"user", "name">>,
        !.id = <<"user", "name">>, !.autocomplete = <<"user", "name">>]

\* <input id="login-id">, no type attribute
e_loginid == [Element("e_loginid", "input") EXCEPT !.id = <<"login", "-", "id">>]

\* <input type="email" name="email">, not displayed
e_ghost ==
    [Element("e_ghost", "input") EXCEPT !.type = <<"email">>, !.name = <<"email">>,
        !.displayed = FALSE]

\* <input type="password" name="password" id="password" autocomplete="current-password">
e_password ==
    [Element("e_password", "input") EXCEPT !.type = <<"password">>,
        !.name = <<"pass", "word">>, !.id = <<"pass", "word">>,
        !.autocomplete = <<"current", "-", "pass", "word">>]

\* <input type="password" id="user-pass">
e_userpass ==
    [Element("e_userpass", "input") EXCEPT !.type = <<"password">>,
        !.id = <<"user", "-", "pass">>]

\* <input type="text" id="passport">
e_passport ==
    [Element("e_passport", "input") EXCEPT !.type = <<"text">>, !.id = <<"pass", "port">>]

\* <button type="submit" data-action-button-primary="true">Continue</button>
b_continue ==
    [Element("b_continue", "button") EXCEPT !.type = <<"submit">>, !.primary = <<"true">>,
        !.text = <<"Continue">>]

\* <button>Continue</button>
b_textonly == [Element("b_textonly", "button") EXCEPT !.text = <<"Continue">>]

\* <button type="submit" disabled>Log in</button>
b_disabled ==
    [Element("b_disabled", "button") EXCEPT !.type = <<"submit">>,
        !.text = <<"Log", " ", "in">>, !.enabled = FALSE]

ElementPool ==
    {e_username, e_loginid, e_ghost, e_password, e_userpass, e_passport,
     b_continue, b_textonly, b_disabled}

\* the state holds a document as the sequence of the names of its elements, in
\* document order; Document gives the elements
ElementNames == {e.el : e \in ElementPool}

PagesUpTo(n) ==
    {p \in UNION {[1..k -> ElementNames] : k \in 0..n} :
        \A i, j \in DOMAIN p : i # j => p[i] # p[j]}

Pages == PagesUpTo(MaxElems)

Document(page) == [i \in DOMAIN page |-> CHOOSE e \in ElementPool : e.el = page[i]]

\* the pages of the Auth0 form: identifier page, password page, and an empty document
StandardPages == { <<"e_username", "b_continue">>, <<"e_password", "b_continue">>, <<>> }

\* a locator of the lists: "input[name='username']" is Sel("input", "name", "=", ...),
\* [a*='v'] and contains(@a, 'v') are Sel(tag, a, "*=", v)
Sel(tag, attr, op, val) == [tag |-> tag, attr |-> attr, op |-> op, val |-> val]

\* line 177, "//input[@type='text' and not @type='password']": not an XPath
\* expression, find_elements raises and the loop goes on (lines 201-202)
InvalidSel == Sel("input", "type", "invalid", <<>>)

username_selectors == <<
    Sel("input", "name", "=", <<"user", "name">>),
    Sel("input", "name", "=", <<"email">>),
    Sel("input", "id", "=", <<"user", "name">>),
    Sel("input", "id", "=", <<"email">>),
    Sel("input", "type", "=", <<"email">>),
    Sel("input", "autocomplete", "=", <<"user", "name">>),
    Sel("input", "autocomplete", "=", <<"email">>),
    Sel("input", "name", "=", <<"user">>),
    Sel("input", "type", "=", <<"text">>),
    Sel("input", "id", "*=", <<"user">>),
    Sel("input", "id", "*=", <<"email">>),
    Sel("input", "id", "*=", <<"login">>),
    Sel("input", "class", "*=", <<"user">>),
    Sel("input", "class", "*=", <<"email">>),
    Sel("input", "name", "=", <<"user", "name">>),
    Sel("input", "name", "=", <<"email">>),
    Sel("input", "id", "=", <<"user", "name">>),
    Sel("input", "id", "=", <<"email">>),
    Sel("input", "type", "=", <<"email">>),
    Sel("input", "autocomplete", "=", <<"user", "name">>),
    Sel("input", "autocomplete", "=", <<"email">>),
    Sel("input", "id", "*=", <<"user">>),
    Sel("input", "id", "*=", <<"email">>),
    Sel("input", "id", "*=", <<"login">>),
    Sel("input", "class", "*=", <<"user">>),
    Sel("input", "class", "*=", <<"email">>),
    Sel("input", "placeholder", "*=", <<"user">>),
    Sel("input", "placeholder", "*=", <<"email">>),
    Sel("input", "placeholder", "*=", <<"Email">>),
    Sel("input", "placeholder", "*=", <<"User", "name">>),
    InvalidSel >>

continue_button_selectors == <<
    Sel("button", "type", "=", <<"submit">>),
    Sel("button", "primary", "=", <<"true">>),
    Sel("button", "class", "*=", <<"continue">>),
    Sel("button", "class", "*=", <<"submit">>),
    Sel("button", "type", "=", <<"submit">>),
    Sel("button", "primary", "=", <<"true">>),
    Sel("button", "text", "*=", <<"Continue">>),
    Sel("button", "text", "*=", <<"CONTINUE">>),
    Sel("button", "class", "*=", <<"continue">>),
    Sel("button", "class", "*=", <<"submit">>),
    Sel("*", "type", "=", <<"submit">>) >>

password_selectors == <<
    Sel("input", "name", "=", <<"pass", "word">>),
    Sel("input", "type", "=", <<"password">>),
    Sel("input", "id", "*=", <<"pass">>),
    Sel("input", "autocomplete", "=", <<"current", "-", "pass", "word">>),
    Sel("input", "type", "=", <<"password">>),
    Sel("input", "name", "=", <<"pass", "word">>),
    Sel("input", "autocomplete", "=", <<"current", "-", "pass", "word">>),
    Sel("input", "id", "*=", <<"pass">>),
    Sel("input", "name", "*=", <<"pass">>) >>

login_button_selectors == <<
    Sel("button", "type", "=", <<"submit">>),
    Sel("button", "primary", "=", <<"true">>),
    Sel("button", "class", "*=", <<"continue">>),
    Sel("button", "class", "*=", <<"submit">>),
    Sel("input", "type", "=", <<"submit">>),
    Sel("button", "type", "=", <<"submit">>),
    Sel("button", "primary", "=", <<"true">>),
    Sel("input", "type", "=", <<"submit">>),
    Sel("button", "text", "*=", <<"Continue">>),
    Sel("button", "text", "*=", <<"CONTINUE">>),
    Sel("button", "text", "*=", <<"Login">>),
    Sel("button", "text", "*=", <<"Sign", " ", "in">>),
    Sel("button", "text", "*=", <<"Log", " ", "in">>),
    Sel("button", "text", "*=", <<"Sign", " ", "In">>),
    Sel("input", "value", "=", <<"Login">>),
    Sel("input", "value", "=", <<"Sign", " ", "in">>),
    Sel("input", "value", "=", <<"Continue">>),
    Sel("button", "class", "*=", <<"login">>),
    Sel("button", "class", "*=", <<"submit">>),
    Sel("button", "class", "*=", <<"continue">>),
    Sel("*", "type", "=", <<"submit">>) >>

\* does the element match the locator
Matches(sel, e) ==
    /\ sel.op # "invalid"
    /\ sel.tag \in {"*", e.tag}
    /\ IF sel.op = "=" THEN e[sel.attr] = sel.val ELSE Contains(e[sel.attr], sel.val)

\* driver.find_elements(By.CSS_SELECTOR | By.XPATH, selector): the matches, in document order
find_elements(page, sel) == SelectSeq(page, LAMBDA e : Matches(sel, e))

\* driver.find_elements(By.TAG_NAME, "input")
all_inputs(page) == SelectSeq(page, LAMBDA e : e.tag = "input")

\* elem.get_attribute("type"): the property, "text" for an <input> without the attribute
get_type(e) == IF e.tag = "input" /\ e.type = NoAttr THEN <<"text">> ELSE e.type

\* the test of the inner loops: lines 190-192 for the username list (kind
\* "username"), lines 274, 332 and 404 for the other lists
accepts(kind, e) ==
    /\ e.displayed
    /\ e.enabled
    /\ kind = "username" => get_type(e) # <<"password">>

\* a selection: the element, and the position in its list of the locator that
\* gave it (0: one of the searches made after the list); NotFound is Python's None
NotFound == [el |-> None, via |-> 0]

RECURSIVE first_match(_, _, _)
\* the inner loop `for elem in elements`: the first accepted element, from position i
first_match(elems, i, kind) ==
    IF i > Len(elems) THEN NotFound
    ELSE IF accepts(kind, elems[i]) THEN [el |-> elems[i].el, via |-> 0]
    ELSE first_match(elems, i + 1, kind)

RECURSIVE select_from_last(_, _, _, _)
\* mutant: the list of locators walked from its end
select_from_last(page, selectors, k, kind) ==
    IF k > Len(selectors) THEN NotFound
    ELSE LET n == Len(selectors) + 1 - k
             m == first_match(find_elements(page, selectors[n]), 1, kind) IN
         IF m # NotFound THEN [m EXCEPT !.via = n]
         ELSE select_from_last(page, selectors, k + 1, kind)

RECURSIVE select(_, _, _, _)
\* the outer loop `for selector in ..._selectors`, from the k-th locator
select(page, selectors, k, kind) ==
    IF k > Len(selectors) THEN NotFound
    ELSE LET m == first_match(find_elements(page, selectors[k]), 1, kind) IN
         IF m # NotFound THEN [m EXCEPT !.via = k]
         ELSE select(page, selectors, k + 1, kind)

\* lines 204-222: the first input that is displayed, enabled and not of type
\* password, hidden, submit or button
scan_inputs(elems, i) ==
    LET ok == {j \in i..Len(elems) :
                  /\ elems[j].displayed
                  /\ elems[j].enabled
                  /\ get_type(elems[j]) \notin {<<"password">>, <<"hidden">>, <<"submit">>,
                                 <<"button">>}}
    IN  IF ok = {} THEN NotFound
        ELSE [el |-> elems[CHOOSE j \in ok : \A h \in ok : j <= h].el, via |-> 0]

\* lines 180-222: the username list, then the scan of all inputs
find_username_field(page) ==
    LET s == select(page, username_selectors, 1, "username") IN
    IF s # NotFound THEN s ELSE scan_inputs(all_inputs(page), 1)

\* lines 264-284: the Continue list
find_continue_button(page) == select(page, continue_button_selectors, 1, "button")

\* lines 344-356: the first displayed input of type password
scan_password(elems) ==
    LET ok == {j \in 1..Len(elems) : get_type(elems[j]) = <<"password">> /\ elems[j].displayed}
    IN  IF ok = {} THEN NotFound
        ELSE [el |-> elems[CHOOSE j \in ok : \A h \in ok : j <= h].el, via |-> 0]

\* lines 322-356: the password list, then the scan by type
find_password_field(page) ==
    LET s == select(page, password_selectors, 1, "password") IN
    IF s # NotFound THEN s ELSE scan_password(all_inputs(page))

\* lines 416-425: the first displayed element of //*[@type='submit']
scan_submit(elems) ==
    LET ok == {j \in 1..Len(elems) : elems[j].displayed}
    IN  IF ok = {} THEN NotFound
        ELSE [el |-> elems[CHOOSE j \in ok : \A h \in ok : j <= h].el, via |-> 0]

\* lines 394-425: the login-button list, then any displayed submit element
find_login_button(page) ==
    LET s == select(page, login_button_selectors, 1, "button") IN
    IF s # NotFound THEN s
    ELSE scan_submit(find_elements(page, Sel("*", "type", "=", <<"submit">>)))

\* EC.presence_of_element_located((By.CSS_SELECTOR, "input[type='password']"))
password_present(page) ==
    \E i \in 1..Len(page) : Matches(Sel("input", "type", "=", <<"password">>), page[i])

\* ---------------------------------------------------------------- the Reports page
\* A <button> of the Reports page: its attributes, whether it holds an <svg>
\* ("none"; "shapes": one whose markup has a path, polygon or circle; "bare": one
\* without), whether it lies in a header/toolbar/action container around a
\* 'Records' text (line 569), and whether it lies in the parent of a 'Records'
\* text or in a sibling of that parent (lines 599-601).
Button(el) ==
    [el |-> el, tag |-> "button", displayed |-> TRUE, svg |-> "none", title |-> NoAttr,
     aria |-> NoAttr, class |-> NoAttr, toolbar |-> FALSE, nearRecords |-> FALSE]

\* <button title="Export"><svg><path/></svg></button>
x_export == [Button("x_export") EXCEPT !.svg = "shapes", !.title = <<"Export">>]

\* <button class="btn"><svg><circle/></svg></button> in the toolbar of 'Records'
x_icon == [Button("x_icon") EXCEPT !.svg = "shapes", !.class = <<"btn">>, !.toolbar = TRUE]

\* <button class="btn">Filter</button> next to 'Records'
x_near == [Button("x_near") EXCEPT !.class = <<"btn">>, !.nearRecords = TRUE]

\* <button aria-label="Download report">
x_download == [Button("x_download") EXCEPT !.aria = <<"Download", " ", "report">>]

\* <button class="icon-btn">
x_iconclass == [Button("x_iconclass") EXCEPT !.class = <<"icon", "-", "btn">>]

\* <button title="Export" style="display:none"><svg><path/></svg></button> next to 'Records'
x_hidden ==
    [Button("x_hidden") EXCEPT !.svg = "shapes", !.title = <<"Export">>, !.toolbar = TRUE,
        !.nearRecords = TRUE, !.displayed = FALSE]

\* <button>Help</button>
x_plain == Button("x_plain")

ButtonPool == {x_export, x_icon, x_near, x_download, x_iconclass, x_hidden, x_plain}

ButtonNames == {b.el : b \in ButtonPool}

ReportPagesUpTo(n) ==
    {p \in UNION {[1..k -> ButtonNames] : k \in 0..n} :
        \A i, j \in DOMAIN p : i # j => p[i] # p[j]}

ReportPages == ReportPagesUpTo(MaxButtons)

\* driver.find_elements(By.TAG_NAME, "button") of the page held in the state
Buttons(page) == [i \in DOMAIN page |-> CHOOSE b \in ButtonPool : b.el = page[i]]

\* the Reports page with its export button, and one without any button
StandardReportPages == { <<"x_export", "x_plain">>, <<>> }

\* str.lower() of lines 544-546
lower(v) ==
    [i \in DOMAIN v |-> CASE v[i] = "Export" -> "export"
                          [] v[i] = "Download" -> "download"
                          [] OTHER -> v[i]]

\* lines 549-550
export_keywords == {"export", "download", "cloud", "arrow"}

\* the first position of the sequence that satisfies the test, 0 if none
first_index(elems, Test(_)) ==
    LET ok == {j \in 1..Len(elems) : Test(elems[j])}
    IN  IF ok = {} THEN 0 ELSE CHOOSE j \in ok : \A h \in ok : j <= h

\* lines 537-579, the test strategy 1 makes on a button: displayed, holds an
\* <svg>, and either a keyword in title, aria-label or class, or an <svg> with
\* shapes and the button inside the container of a 'Records' text
icon_control(b) ==
    /\ b.displayed
    /\ b.svg # "none"
    /\ \/ \E k \in export_keywords :
            \/ Contains(lower(b.title), <<k>>)
            \/ Contains(lower(b.aria), <<k>>)
            \/ Contains(lower(b.class), <<k>>)
       \/ b.svg = "shapes" /\ b.toolbar

\* lines 528-588
strategy1(btns) ==
    LET j == first_index(btns, icon_control) IN IF j = 0 THEN None ELSE btns[j].el

\* lines 603-611, the test strategy 2 makes on a button near 'Records'
near_control(b) ==
    /\ b.nearRecords
    /\ b.displayed
    /\ b.svg # "none" \/ b.class # NoAttr

\* lines 590-620
strategy2(btns) ==
    LET j == first_index(btns, near_control) IN IF j = 0 THEN None ELSE btns[j].el

\* lines 625-633
export_class_selectors == <<
    Sel("button", "class", "*=", <<"export">>),
    Sel("button", "class", "*=", <<"download">>),
    Sel("button", "class", "*=", <<"icon">>),
    Sel("button", "title", "*=", <<"Export">>),
    Sel("button", "title", "*=", <<"Download">>),
    Sel("button", "aria", "*=", <<"Export">>),
    Sel("button", "aria", "*=", <<"Download">>) >>

is_displayed(b) == b.displayed

RECURSIVE strategy3(_, _)
\* lines 635-646: the first displayed match of the earliest selector, from the k-th
strategy3(btns, k) ==
    IF k > Len(export_class_selectors) THEN None
    ELSE LET elements == find_elements(btns, export_class_selectors[k])
             j == first_index(elements, is_displayed) IN
         IF j # 0 THEN elements[j].el ELSE strategy3(btns, k + 1)

\* what one strategy leaves in export_button: nothing when its driver calls
\* raise (the handlers of lines 587, 619 and 645 only log)
attempt(n, btns, broken) ==
    IF n \in broken THEN <<"strategy raised", n, None>>
    ELSE <<"strategy", n, CASE n = 1 -> strategy1(btns)
                            [] n = 2 -> strategy2(btns)
                            [] n = 3 -> strategy3(btns, 1)>>

\* mutant: every strategy is run, the last one that finds a button decides
discover_unguarded(btns, broken) ==
    << attempt(1, btns, broken), attempt(2, btns, broken), attempt(3, btns, broken) >>

\* lines 526-646: strategy 1, then `if not export_button:` strategy 2, then
\* `if not export_button:` strategy 3; the attempts made, in order
discover(btns, broken) ==
    LET a1 == attempt(1, btns, broken)
        a2 == attempt(2, btns, broken)
        a3 == attempt(3, btns, broken)
    IN  IF a1[3] # None THEN <<a1>>
        ELSE IF a2[3] # None THEN <<a1, a2>>
        ELSE <<a1, a2, a3>>

\* export_button after the attempts: the last assignment made
found_button(attempts) ==
    LET hits == {j \in 1..Len(attempts) : attempts[j][3] # None}
    IN  IF hits = {} THEN None ELSE attempts[CHOOSE j \in hits : \A h \in hits : h <= j][3]

\* ---------------------------------------------------------------- initial state
\* a run started shortly before midnight of New Year's Eve: the runs of the model
\* read the clock for the timestamp on either side of the change of year
StartClocks ==
    { [date |-> [Y |-> 2024, M |-> 12, D |-> 31], tod |-> 23 * 3600 + 58 * 60] }

Init ==
    /\ pc = "main"
    /\ \E c \in StartClocks : today = c.date /\ now = Sec(c.tod)
    /\ driver = None
    /\ quitCount = 0
    /\ setupLog = <<>>
    /\ stages = <<>>
    /\ failedStage = None
    /\ raisedBy = <<>>
    /\ exc = <<>>
    /\ outcome = "running"
    /\ returned = NoPath
    /\ url = <<>>
    /\ \E S \in SUBSET Names : dl = [n \in S |-> now - Sec(LeftoverAge[n])]
    /\ \E e \in BOOLEAN : ar = [exists |-> e, files |-> {}]
    /\ downloaded_file = None
    /\ wait_time = 0
    /\ polls = 0
    /\ allStale = TRUE
    /\ exportTime = -1
    /\ keys = <<>>
    /\ screenshots = <<>>
    /\ cwd = script_dir
    /\ cwdFiles = {}
    /\ final_path = NoPath
    /\ archivedAt = None
    /\ reports = <<>>
    /\ writes = 0
    /\ dom = <<>>
    /\ username_field = NotFound
    /\ continue_button = NotFound
    /\ password_field = NotFound
    /\ login_button = NotFound
    /\ loginLog = <<>>
    /\ menuStrategies = <<>>
    /\ reportsDom = <<>>
    /\ export_button = None
    /\ exportLog = <<>>
    /\ sched = "none"
    /\ runs = 0

\* ---------------------------------------------------------------- helpers
Sleep(seconds10) == now' = now + seconds10

\* raise at the point the code raises: records the run's first exception
Raise(stage, msg) ==
    /\ exc' = <<msg>>
    /\ failedStage' = IF failedStage = None THEN stage ELSE failedStage
    /\ raisedBy' = IF raisedBy = <<>> THEN <<msg>> ELSE raisedBy

NoRaise == UNCHANGED <<exc, failedStage, raisedBy>>

Start(stage) == stages' = Append(stages, stage)

FsSame == UNCHANGED <<dl, ar, writes>>
PollSame == UNCHANGED <<downloaded_file, wait_time, polls, allStale>>

\* ---------------------------------------------------------------- setup_driver
\* mutant: no fallback, the failure of the primary strategy is raised
SetupPrimaryNoFallback ==
    /\ pc = "main"
    /\ Start("SessionInitializer")
    /\ \E ok \in BOOLEAN :
        /\ setupLog' = Append(setupLog, <<"webdriver-manager", ok>>)
        /\ IF ok THEN /\ driver' = "webdriver-manager"
                      /\ pc' = "login"
                      /\ NoRaise
                 ELSE /\ driver' = driver
                      /\ pc' = "main_except"
                      /\ Raise("SessionInitializer", "Failed to initialize Chrome driver")
    /\ UNCHANGED <<now, today, schedVars, cwd, exportVars, loginVars, quitCount, outcome, returned, url,
                   exportTime, keys, menuStrategies,
                   screenshots, cwdFiles, final_path, archivedAt, reports>>
    /\ FsSame /\ PollSame

\* main() line 957 calls setup_driver(); lines 74-78: the primary strategy,
\* ChromeDriverManager().install() then webdriver.Chrome(service=...)
SetupPrimary ==
    /\ pc = "main"
    /\ Start("SessionInitializer")
    /\ \E ok \in BOOLEAN :
        /\ setupLog' = Append(setupLog, <<"webdriver-manager", ok>>)
        /\ IF ok THEN /\ driver' = "webdriver-manager"
                      /\ pc' = "login"
                 ELSE /\ driver' = driver
                      /\ pc' = "setup_fallback"
    /\ NoRaise
    /\ UNCHANGED <<now, today, schedVars, cwd, exportVars, loginVars, quitCount, outcome, returned, url,
                   exportTime, keys, menuStrategies,
                   screenshots, cwdFiles, final_path, archivedAt, reports>>
    /\ FsSame /\ PollSame

\* lines 79-88: the fallback strategy, webdriver.Chrome(options=...), and the re-raise
SetupFallback ==
    /\ pc = "setup_fallback"
    /\ \E ok \in BOOLEAN :
        /\ setupLog' = Append(setupLog, <<"system", ok>>)
        /\ IF ok THEN /\ driver' = "system"
                      /\ pc' = "login"
                      /\ NoRaise
                 ELSE /\ driver' = driver
                      /\ pc' = "main_except"
                      /\ Raise("SessionInitializer", "Failed to initialize Chrome driver")
    /\ UNCHANGED <<now, today, schedVars, cwd, exportVars, loginVars, quitCount, stages, outcome, returned, url,
                   exportTime, keys, menuStrategies,
                   screenshots, cwdFiles, final_path, archivedAt, reports>>
    /\ FsSame /\ PollSame

\* ---------------------------------------------------------------- main(): except, finally
\* mutant: the handler logs the error and does not re-raise
MainExceptSwallows ==
    /\ pc = "main_except"
    /\ pc' = "main_finally"
    /\ exc' = <<>>
    /\ UNCHANGED <<now, today, schedVars, cwd, exportVars, loginVars, driver, quitCount, setupLog, stages,
                   failedStage, raisedBy,
                   outcome, returned, url, exportTime, keys, menuStrategies, screenshots, cwdFiles,
                                  final_path,
                   archivedAt, reports>>
    /\ FsSame /\ PollSame

\* lines 983-985: log and re-raise
MainExcept ==
    /\ pc = "main_except"
    /\ pc' = "main_finally"
    /\ UNCHANGED <<now, today, schedVars, cwd, exportVars, loginVars, driver, quitCount, setupLog, stages,
                   failedStage, raisedBy,
                   exc, outcome, returned, url, exportTime, keys, menuStrategies, screenshots, cwdFiles,
                                  final_path,
                   archivedAt, reports>>
    /\ FsSame /\ PollSame

\* mutant: driver.quit() at the end of the try block instead of in `finally`
MainFinallyQuitOnSuccessOnly ==
    /\ pc = "main_finally"
    /\ quitCount' = IF driver # None /\ exc = <<>> THEN quitCount + 1 ELSE quitCount
    /\ IF exc = <<>> THEN outcome' = "returned" /\ returned' = final_path
                     ELSE outcome' = "raised" /\ returned' = returned
    /\ pc' = "done"
    /\ UNCHANGED <<now, today, schedVars, cwd, exportVars, loginVars, driver, setupLog, stages, failedStage,
                   raisedBy, exc, url,
                   exportTime, keys, menuStrategies, screenshots, cwdFiles, final_path, archivedAt, reports>>
    /\ FsSame /\ PollSame

\* lines 987-990: if driver: driver.quit(); then main() returns final_path or raises
MainFinally ==
    /\ pc = "main_finally"
    /\ quitCount' = IF driver # None THEN quitCount + 1 ELSE quitCount
    /\ IF exc = <<>> THEN outcome' = "returned" /\ returned' = final_path
                     ELSE outcome' = "raised" /\ returned' = returned
    /\ pc' = "done"
    /\ UNCHANGED <<now, today, schedVars, cwd, exportVars, loginVars, driver, setupLog, stages, failedStage,
                   raisedBy, exc, url,
                   exportTime, keys, menuStrategies, screenshots, cwdFiles, final_path, archivedAt, reports>>
    /\ FsSame /\ PollSame

\* ---------------------------------------------------------------- login_to_redbeam
Shoot(name) == screenshots' = Append(screenshots, name)

\* the relative names under which login_to_redbeam and export_reports_data write
DiagnosticFiles ==
    {"login_page_source.html", "login_page_error.png", "login_failed.png", "login_error.png",
     "export_button_not_found.png", "keyboard_nav_error.png", "export_error.png",
     "export_error_source.html"}

\* a file written under a relative name (save_screenshot("x.png"), open("x.html", "w")):
\* it is created in the working directory, unless the write failed
Saved(names, written) == cwdFiles' = IF written THEN cwdFiles \cup names ELSE cwdFiles

LoginFrame ==
    /\ UNCHANGED <<today, schedVars, cwd, exportVars, driver, quitCount, setupLog, outcome, returned,
                   exportTime, keys, menuStrategies, final_path, archivedAt, reports>>
    /\ FsSame /\ PollSame

\* lines 94-139: open the login page, wait for the redirect (30 s, then the direct
\* URL), wait for <body> and for readyState "complete" (30 s each, a timeout raises);
\* P: the documents the login page may turn out to be
LoginNavigateOn(P) ==
    /\ pc = "login"
    /\ Start("Authenticator")
    /\ url' = REDBEAM_AUTH0_LOGIN
    /\ \E redirected \in BOOLEAN, loaded \in BOOLEAN :
        IF loaded
        THEN /\ Sleep((IF redirected THEN 0 ELSE Sec(30)) + Sec(10) + Sec(5))
             /\ \E p \in P : dom' = p
             /\ Saved({"login_page_source.html"}, TRUE)
             /\ NoRaise
             /\ pc' = "login_username"
        ELSE /\ Sleep((IF redirected THEN 0 ELSE Sec(30)) + Sec(30))
             /\ dom' = dom
             /\ UNCHANGED cwdFiles
             /\ Raise("Authenticator", "TimeoutException")
             /\ pc' = "login_except"
    /\ UNCHANGED <<screenshots, username_field, continue_button, password_field,
                   login_button, loginLog>>
    /\ LoginFrame

LoginNavigate == LoginNavigateOn(StandardPages)

\* lines 141-245: find the username field and type the username; none found:
\* screenshot login_page_error.png and raise
LoginUsername ==
    /\ pc = "login_username"
    /\ \E found \in {find_username_field(Document(dom))} :
        /\ username_field' = found
        /\ \E shot \in BOOLEAN :
            IF found # NotFound
            THEN /\ shot
                 /\ loginLog' = loginLog \o << <<"find", "username_field", found.el>>,
                                               <<"clear", found.el, "">>,
                                               <<"send_keys", found.el, "REDBEAM_USERNAME">> >>
                 /\ Sleep(Sec(2))
                 /\ NoRaise
                 /\ UNCHANGED <<screenshots, cwdFiles>>
                 /\ pc' = "login_continue"
            ELSE /\ loginLog' = Append(loginLog, <<"find", "username_field", None>>)
                 /\ Shoot("login_page_error.png")
                 /\ Saved({"login_page_error.png"}, shot)
                 /\ Raise("Authenticator",
                          IF shot THEN "Username field not found" ELSE "WebDriverException")
                 /\ UNCHANGED now
                 /\ pc' = "login_except"
    /\ UNCHANGED <<stages, url, dom, continue_button, password_field, login_button>>
    /\ LoginFrame

\* mutant: the TimeoutException of the wait for the password field is not caught
LoginContinueTimeoutFatal(P, L) ==
    /\ pc = "login_continue"
    /\ \E found \in {find_continue_button(Document(dom))} :
        /\ continue_button' = found
        /\ \E p \in P :
            \E present \in {password_present(Document(p))} :
            \E appeared \in {present /\ ~late : late \in L} :
                /\ dom' = p
                /\ loginLog' = loginLog \o
                        << <<"find", "continue_button", found.el>>,
                           IF found = NotFound THEN <<"send_keys", username_field.el, "RETURN">>
                                               ELSE <<"click", found.el, "">>,
                           <<"wait", "input[type='password']",
                             IF appeared THEN "present" ELSE "TimeoutException">> >>
                /\ Sleep(Sec(3) + (IF appeared THEN 0 ELSE Sec(15)) + Sec(2))
    /\ url' = PasswordPage
    /\ IF loginLog'[Len(loginLog')][3] = "TimeoutException"
       THEN Raise("Authenticator", "TimeoutException") /\ pc' = "login_except"
       ELSE NoRaise /\ pc' = "login_password"
    /\ UNCHANGED <<stages, screenshots, cwdFiles, username_field, password_field, login_button>>
    /\ LoginFrame

\* lines 247-306: click Continue or press RETURN in the username field, then wait
\* for the password field (15 s, a timeout is only logged); P: the documents the
\* form may show when the search for the password field starts, L: whether a
\* password input of that document may have come too late for the wait
LoginContinueOn(P, L) ==
    /\ pc = "login_continue"
    /\ \E found \in {find_continue_button(Document(dom))} :
        /\ continue_button' = found
        /\ \E p \in P :
            \E present \in {password_present(Document(p))} :
            \E appeared \in {present /\ ~late : late \in L} :
                /\ dom' = p
                /\ loginLog' = loginLog \o
                        << <<"find", "continue_button", found.el>>,
                           IF found = NotFound THEN <<"send_keys", username_field.el, "RETURN">>
                                               ELSE <<"click", found.el, "">>,
                           <<"wait", "input[type='password']",
                             IF appeared THEN "present" ELSE "TimeoutException">> >>
                /\ Sleep(Sec(3) + (IF appeared THEN 0 ELSE Sec(15)) + Sec(2))
    /\ url' = PasswordPage
    /\ NoRaise
    /\ pc' = "login_password"
    /\ UNCHANGED <<stages, screenshots, cwdFiles, username_field, password_field, login_button>>
    /\ LoginFrame

LoginContinue == LoginContinueOn(StandardPages, {FALSE})

\* mutant: when no password field is found the Continue step is made again, once
LoginPasswordRetriesContinue ==
    /\ pc = "login_password"
    /\ \E found \in {find_password_field(Document(dom))} :
        /\ password_field' = found
        /\ IF found # NotFound
           THEN /\ loginLog' = loginLog \o << <<"find", "password_field", found.el>>,
                                              <<"clear", found.el, "">>,
                                              <<"send_keys", found.el, "REDBEAM_PASSWORD">> >>
                /\ Sleep(Sec(2))
                /\ NoRaise
                /\ pc' = "login_submit"
           ELSE /\ loginLog' = Append(loginLog, <<"find", "password_field", None>>)
                /\ UNCHANGED now
                /\ IF Len(loginLog) < 8
                   THEN NoRaise /\ pc' = "login_continue"
                   ELSE /\ Raise("Authenticator",
                                 "Password field not found after clicking Continue")
                        /\ pc' = "login_except"
    /\ UNCHANGED <<stages, url, screenshots, cwdFiles, dom, username_field, continue_button, login_button>>
    /\ LoginFrame

\* lines 308-364: find the password field and type the password; none found: raise
LoginPassword ==
    /\ pc = "login_password"
    /\ \E found \in {find_password_field(Document(dom))} :
        /\ password_field' = found
        /\ IF found # NotFound
           THEN /\ loginLog' = loginLog \o << <<"find", "password_field", found.el>>,
                                              <<"clear", found.el, "">>,
                                              <<"send_keys", found.el, "REDBEAM_PASSWORD">> >>
                /\ Sleep(Sec(2))
                /\ NoRaise
                /\ pc' = "login_submit"
           ELSE /\ loginLog' = Append(loginLog, <<"find", "password_field", None>>)
                /\ Raise("Authenticator", "Password field not found after clicking Continue")
                /\ UNCHANGED now
                /\ pc' = "login_except"
    /\ UNCHANGED <<stages, url, screenshots, cwdFiles, dom, username_field, continue_button, login_button>>
    /\ LoginFrame

\* mutant: RETURN is sent to the password field whether or not a button was clicked
LoginSubmitClickAndReturn ==
    /\ pc = "login_submit"
    /\ \E found \in {find_login_button(Document(dom))} :
        /\ login_button' = found
        /\ loginLog' = loginLog \o
                << <<"find", "login_button", found.el>> >> \o
                (IF found = NotFound THEN << >> ELSE << <<"click", found.el, "">> >>) \o
                << <<"send_keys", password_field.el, "RETURN">> >>
    /\ Sleep(Sec(5))
    /\ NoRaise
    /\ pc' = "login_wait"
    /\ UNCHANGED <<stages, url, screenshots, cwdFiles, dom, username_field, continue_button, password_field>>
    /\ LoginFrame

\* lines 366-435: click the login button or press RETURN in the password field
LoginSubmit ==
    /\ pc = "login_submit"
    /\ \E found \in {find_login_button(Document(dom))} :
        /\ login_button' = found
        /\ loginLog' = loginLog \o
                << <<"find", "login_button", found.el>>,
                   IF found = NotFound THEN <<"send_keys", password_field.el, "RETURN">>
                                       ELSE <<"click", found.el, "">> >>
    /\ Sleep(Sec(5))
    /\ NoRaise
    /\ pc' = "login_wait"
    /\ UNCHANGED <<stages, url, screenshots, cwdFiles, dom, username_field, continue_button, password_field>>
    /\ LoginFrame

\* line 442: lambda d: "app.redbeam.com" in d.current_url
RedirectedToApp(u) == Contains(u, <<"app", "redbeam", "com">>)

\* lines 451-453: still on a login page
StillOnLoginPage(u) ==
    \/ Contains(u, <<"login", "app", "redbeam", "com">>)
    \/ Contains(u, <<"u", "login">>)
    \/ Contains(u, <<"login">>)

\* lines 437-478: wait up to 45 s for the redirect; on a timeout look at the URL:
\* a login page is a failure (screenshot login_failed.png, raise), any other page is not
LoginWait ==
    /\ pc = "login_wait"
    /\ \/ \E u \in URLs :
            /\ RedirectedToApp(u)
            /\ url' = u
            /\ UNCHANGED <<now, screenshots, cwdFiles>>
            /\ NoRaise
            /\ pc' = "login_return"
       \/ \E u \in URLs, shot \in BOOLEAN :
            /\ ~RedirectedToApp(u)
            /\ url' = u
            /\ Sleep(Sec(45))
            /\ IF StillOnLoginPage(u)
               THEN /\ Shoot("login_failed.png")
                    /\ Saved({"login_failed.png"}, shot)
                    /\ Raise("Authenticator",
                             IF shot THEN "Login failed - still on login page"
                                     ELSE "WebDriverException")
                    /\ pc' = "login_except"
               ELSE /\ shot
                    /\ UNCHANGED <<screenshots, cwdFiles>>
                    /\ NoRaise
                    /\ pc' = "login_return"
    /\ UNCHANGED <<stages, loginVars>>
    /\ LoginFrame

\* lines 480-490: sleep, log the URL (a URL off the app domain is only a warning), return True
LoginReturn ==
    /\ pc = "login_return"
    /\ Sleep(Sec(5))
    /\ NoRaise
    /\ pc' = "export"
    /\ UNCHANGED <<stages, url, screenshots, cwdFiles, loginVars>>
    /\ LoginFrame

\* mutant: the handler logs the error and returns False instead of re-raising
LoginExceptReturnsFalse ==
    /\ pc = "login_except"
    /\ Shoot("login_error.png")
    /\ Saved({"login_error.png"}, TRUE)
    /\ exc' = <<>>
    /\ pc' = "export"
    /\ UNCHANGED <<now, stages, url, failedStage, raisedBy, loginVars>>
    /\ LoginFrame

\* lines 492-495: screenshot login_error.png, then re-raise; a failing screenshot
\* raises its own exception instead
LoginExcept ==
    /\ pc = "login_except"
    /\ Shoot("login_error.png")
    /\ \E shot \in BOOLEAN :
        /\ Saved({"login_error.png"}, shot)
        /\ exc' = IF shot THEN exc ELSE <<"WebDriverException">>
    /\ pc' = "main_except"
    /\ UNCHANGED <<now, stages, url, failedStage, raisedBy, loginVars>>
    /\ LoginFrame

\* ---------------------------------------------------------------- export_reports_data
ExportFrame ==
    UNCHANGED <<today, schedVars, cwd, loginVars, driver, quitCount, setupLog, outcome, returned,
                   final_path, archivedAt, reports>>

\* mutant: the TimeoutException of the waits is caught and the discovery goes on
ExportNavigateIgnoresTimeout ==
    /\ pc = "export"
    /\ Start("ReportNavigator")
    /\ url' = REDBEAM_REPORTS_PAGE_URL
    /\ \E loaded \in BOOLEAN :
        IF loaded
        THEN /\ Sleep(Sec(10) + Sec(5) + Sec(5))
             /\ NoRaise
        ELSE /\ Sleep(Sec(30))
             /\ exc' = <<>>
             /\ failedStage' = "ReportNavigator"
             /\ raisedBy' = <<"TimeoutException">>
    /\ pc' = "export_discover"
    /\ UNCHANGED <<exportTime, keys, menuStrategies, screenshots, cwdFiles>>
    /\ ExportFrame /\ UNCHANGED exportVars /\ FsSame /\ PollSame

\* lines 500-521: open the Reports page, wait for <body> and readyState (30 s each,
\* a timeout raises), then the fixed settling sleeps
ExportNavigate ==
    /\ pc = "export"
    /\ Start("ReportNavigator")
    /\ url' = REDBEAM_REPORTS_PAGE_URL
    /\ \E loaded \in BOOLEAN :
        IF loaded
        THEN /\ Sleep(Sec(10) + Sec(5) + Sec(5))
             /\ NoRaise
             /\ pc' = "export_discover"
        ELSE /\ Sleep(Sec(30))
             /\ Raise("ReportNavigator", "TimeoutException")
             /\ pc' = "export_except"
    /\ UNCHANGED <<exportTime, keys, menuStrategies, screenshots, cwdFiles>>
    /\ ExportFrame /\ UNCHANGED exportVars /\ FsSame /\ PollSame

\* lines 523-652: the three discovery strategies on the Reports page; none yields
\* a button: screenshot export_button_not_found.png and raise.  P: the pages the
\* Reports page may turn out to be, B: the sets of strategies whose driver calls raise
ExportDiscoverOn(P, B) ==
    /\ pc = "export_discover"
    /\ Start("ExportTrigger")
    /\ \E p \in P, broken \in B, shot \in BOOLEAN :
        \E attempts \in {discover(Buttons(p), broken)} :
            /\ reportsDom' = p
            /\ exportLog' = exportLog \o attempts
            /\ export_button' = found_button(attempts)
            /\ IF found_button(attempts) # None
               THEN /\ shot
                    /\ NoRaise
                    /\ UNCHANGED <<screenshots, cwdFiles>>
                    /\ pc' = "export_click"
               ELSE /\ Shoot("export_button_not_found.png")
                    /\ Saved({"export_button_not_found.png"}, shot)
                    /\ Raise("ExportTrigger",
                             IF shot THEN "Export button not found on Reports page"
                                     ELSE "WebDriverException")
                    /\ pc' = "export_except"
    /\ UNCHANGED <<now, url, exportTime, keys, menuStrategies>>
    /\ ExportFrame /\ FsSame /\ PollSame

ExportDiscover == ExportDiscoverOn(StandardReportPages, {{}})

\* lines 654-666: ActionChains click, else export_button.click() (which may raise)
ExportClick ==
    /\ pc = "export_click"
    /\ \E clicked \in BOOLEAN :
        IF clicked
        THEN /\ exportLog' = Append(exportLog, <<"click", 0, export_button>>)
             /\ Sleep(Sec(5))
             /\ NoRaise
             /\ pc' = "export_keys"
        ELSE /\ UNCHANGED <<now, exportLog>>
             /\ Raise("ExportTrigger", "WebDriverException")
             /\ pc' = "export_except"
    /\ UNCHANGED <<stages, url, exportTime, keys, menuStrategies, screenshots, cwdFiles, reportsDom,
                   export_button>>
    /\ ExportFrame /\ FsSame /\ PollSame

\* mutant: the CSV entry taken to be the second of the menu
KeySequenceTwoDowns == <<"ARROW_DOWN", "ARROW_DOWN", "ENTER">>

\* the key events of lines 677-683
KeySequence == <<"ARROW_DOWN", "ARROW_DOWN", "ARROW_DOWN", "ENTER">>

\* lines 670-683: focus the body, ARROW_DOWN three times, ENTER (0.5 s, then 0.3 s
\* after each ARROW_DOWN); a driver error at the (sent+1)-th key event goes to
\* the handler of line 708
ExportKeys ==
    /\ pc = "export_keys"
    /\ menuStrategies' = Append(menuStrategies, "keyboard")
    /\ \E sent \in 0..Len(KeySequence) :
        /\ keys' = SubSeq(KeySequence, 1, sent)
        /\ Sleep(5 + 3 * (IF sent < 3 THEN sent ELSE 3))
        /\ IF sent = Len(KeySequence)
           THEN /\ exportTime' = now'
                /\ NoRaise
                /\ pc' = "export_resolve"
           ELSE /\ UNCHANGED exportTime
                /\ Raise("ExportTrigger", "WebDriverException")
                /\ pc' = "keyboard_except"
    /\ UNCHANGED <<stages, url, screenshots, cwdFiles>>
    /\ ExportFrame /\ UNCHANGED exportVars /\ FsSame /\ PollSame

\* lines 685-691: sleep 5, download_dir, max_wait = 60, wait_time = 0
ResolverStart ==
    /\ pc = "export_resolve"
    /\ Start("DownloadResolver")
    /\ Sleep(Sec(5))
    /\ wait_time' = 0
    /\ pc' = "export_poll"
    /\ NoRaise
    /\ UNCHANGED <<url, exportTime, keys, menuStrategies, screenshots, cwdFiles, downloaded_file, polls,
                   allStale>>
    /\ ExportFrame /\ UNCHANGED exportVars /\ FsSame

\* mutant: the loop sleeps but does not count its waiting
PollForgetsToCount ==
    /\ pc = "export_poll"
    /\ wait_time < max_wait
    /\ polls' = polls + 1
    /\ LET csv_files == glob(dl) IN
        /\ allStale' = (allStale /\ \A f \in csv_files : now - dl[f] > Sec(freshness))
        /\ \/ /\ csv_files # {}
              /\ \E most_recent \in MostRecent(dl, csv_files) :
                    /\ IsFresh(now - dl[most_recent])
                    /\ downloaded_file' = most_recent
              /\ pc' = "archive"
              /\ UNCHANGED <<now, wait_time>>
           \/ /\ \/ csv_files = {}
                 \/ \E most_recent \in MostRecent(dl, csv_files) :
                        ~IsFresh(now - dl[most_recent])
              /\ Sleep(Sec(poll_sleep))
              /\ wait_time' = wait_time
              /\ pc' = pc
              /\ UNCHANGED downloaded_file
    /\ NoRaise
    /\ UNCHANGED <<stages, url, exportTime, keys, menuStrategies, screenshots, cwdFiles>>
    /\ ExportFrame /\ UNCHANGED exportVars /\ FsSame

\* lines 693-703: one iteration of `while wait_time < max_wait`
Poll ==
    /\ pc = "export_poll"
    /\ wait_time < max_wait
    /\ polls' = polls + 1
    /\ LET csv_files == glob(dl) IN
        /\ allStale' = (allStale /\ \A f \in csv_files : now - dl[f] > Sec(freshness))
        /\ \/ /\ csv_files # {}
              /\ \E most_recent \in MostRecent(dl, csv_files) :
                    /\ IsFresh(now - dl[most_recent])
                    /\ downloaded_file' = most_recent
              /\ pc' = "archive"
              /\ UNCHANGED <<now, wait_time>>
           \/ /\ \/ csv_files = {}
                 \/ \E most_recent \in MostRecent(dl, csv_files) :
                        ~IsFresh(now - dl[most_recent])
              /\ Sleep(Sec(poll_sleep))
              /\ wait_time' = wait_time + poll_sleep
              /\ pc' = pc
              /\ UNCHANGED downloaded_file
    /\ NoRaise
    /\ UNCHANGED <<stages, url, exportTime, keys, menuStrategies, screenshots, cwdFiles>>
    /\ ExportFrame /\ UNCHANGED exportVars /\ FsSame

\* mutant: the loop ends without a file and export_reports_data returns None
PollTimeoutReturnsNone ==
    /\ pc = "export_poll"
    /\ ~(wait_time < max_wait)
    /\ NoRaise
    /\ pc' = "archive"
    /\ UNCHANGED <<now, stages, url, exportTime, keys, menuStrategies, screenshots, cwdFiles>>
    /\ ExportFrame /\ UNCHANGED exportVars /\ FsSame /\ PollSame

\* lines 693, 706: the loop ends without a file
PollTimeout ==
    /\ pc = "export_poll"
    /\ ~(wait_time < max_wait)
    /\ Raise("DownloadResolver",
             "CSV file not found in Downloads folder after keyboard navigation")
    /\ pc' = "keyboard_except"
    /\ UNCHANGED <<now, stages, url, exportTime, keys, menuStrategies, screenshots, cwdFiles>>
    /\ ExportFrame /\ UNCHANGED exportVars /\ FsSame /\ PollSame

\* mutant: the handler also deletes the .csv files of the download directory
KeyboardExceptCleansDownloads ==
    /\ pc = "keyboard_except"
    /\ Shoot("keyboard_nav_error.png")
    /\ \E shot \in BOOLEAN :
        /\ Saved({"keyboard_nav_error.png"}, shot)
        /\ exc' = IF shot THEN <<"Failed to download CSV using keyboard navigation">> \o exc
                          ELSE <<"WebDriverException">>
    /\ pc' = "export_except"
    /\ dl' = [n \in (DOMAIN dl) \ glob(dl) |-> dl[n]]
    /\ UNCHANGED <<now, stages, url, exportTime, keys, menuStrategies, failedStage, raisedBy,
                   ar, writes>>
    /\ ExportFrame /\ UNCHANGED exportVars /\ PollSame

\* lines 708-712: screenshot keyboard_nav_error.png, raise a new Exception that
\* quotes the one caught
KeyboardExcept ==
    /\ pc = "keyboard_except"
    /\ Shoot("keyboard_nav_error.png")
    /\ \E shot \in BOOLEAN :
        /\ Saved({"keyboard_nav_error.png"}, shot)
        /\ exc' = IF shot THEN <<"Failed to download CSV using keyboard navigation">> \o exc
                          ELSE <<"WebDriverException">>
    /\ pc' = "export_except"
    /\ UNCHANGED <<now, stages, url, exportTime, keys, menuStrategies, failedStage, raisedBy>>
    /\ ExportFrame /\ UNCHANGED exportVars /\ FsSame /\ PollSame

\* mutant: the handler starts export_reports_data again, once
ExportExceptRetries ==
    /\ pc = "export_except"
    /\ Shoot("export_error.png")
    /\ Saved({"export_error.png", "export_error_source.html"}, TRUE)
    /\ IF Len(screenshots) < 3
       THEN exc' = <<>> /\ pc' = "export"
       ELSE exc' = exc /\ pc' = "main_except"
    /\ UNCHANGED <<now, stages, url, exportTime, keys, menuStrategies, failedStage, raisedBy>>
    /\ ExportFrame /\ UNCHANGED exportVars /\ FsSame /\ PollSame

\* lines 916-921: screenshot export_error.png, dump the page source, re-raise
ExportExcept ==
    /\ pc = "export_except"
    /\ Shoot("export_error.png")
    /\ \E shot \in BOOLEAN :
        /\ Saved({"export_error.png", "export_error_source.html"}, shot)
        /\ exc' = IF shot THEN exc ELSE <<"WebDriverException">>
    /\ pc' = "main_except"
    /\ UNCHANGED <<now, stages, url, exportTime, keys, menuStrategies, failedStage, raisedBy>>
    /\ ExportFrame /\ UNCHANGED exportVars /\ FsSame /\ PollSame

\* ---------------------------------------------------------------- archive (main 966-981)
ArchiveFrame ==
    UNCHANGED <<now, today, schedVars, cwd, exportVars, loginVars, driver, quitCount, setupLog, outcome,
                   returned, url, exportTime,
                keys, menuStrategies, screenshots, cwdFiles, writes>>

\* line 967, get_desktop_path lines 43-48: mkdir(parents=True, exist_ok=True)
get_desktop_path ==
    /\ pc = "archive"
    /\ Start("Archiver")
    /\ \E made \in BOOLEAN :
        IF made \/ ar.exists
        THEN /\ ar' = [ar EXCEPT !.exists = TRUE]
             /\ NoRaise
             /\ pc' = "archive_move"
        ELSE /\ ar' = ar
             /\ Raise("Archiver", "OSError")
             /\ pc' = "main_except"
    /\ UNCHANGED <<dl, final_path, archivedAt, reports>>
    /\ ArchiveFrame /\ PollSame

\* lines 968-981: timestamp, final_path, shutil.move, return final_path
ArchiveMove ==
    /\ pc = "archive_move"
    /\ archivedAt' = DatetimeNow(today, now)
    /\ final_path' = [dir |-> output_dir, name |-> filename(strftime(archivedAt'))]
    /\ \E result \in {"moved", "failed", "copied"} :
        CASE result = "moved" ->
                /\ downloaded_file \in DOMAIN dl
                /\ dl' = Move(dl, ar, downloaded_file, final_path'.name).dl
                /\ ar' = Move(dl, ar, downloaded_file, final_path'.name).ar
                /\ reports' = Append(reports, [at |-> archivedAt', name |-> final_path'.name,
                                                content |-> <<downloaded_file,
                                                               dl[downloaded_file]>>])
                /\ NoRaise
                /\ pc' = "main_finally"
          [] result = "failed" ->
                /\ UNCHANGED <<dl, ar, reports>>
                /\ Raise("Archiver", "OSError")
                /\ pc' = "main_except"
          [] result = "copied" ->
                /\ downloaded_file \in DOMAIN dl
                /\ dl' = MoveHalf(dl, ar, downloaded_file, final_path'.name).dl
                /\ ar' = MoveHalf(dl, ar, downloaded_file, final_path'.name).ar
                /\ UNCHANGED reports
                /\ Raise("Archiver", "OSError")
                /\ pc' = "main_except"
    /\ UNCHANGED stages
    /\ ArchiveFrame /\ PollSame

\* ---------------------------------------------------------------- environment
\* The browser, or any other program of the host, writes a file into the
\* download directory while the run is in export_reports_data or archiving;
\* what was written earlier is a leftover of the initial state.
WritePcs == {"export", "export_discover", "export_click", "export_keys", "export_resolve",
             "export_poll", "archive", "archive_move"}

WriteFile ==
    /\ pc \in WritePcs
    /\ writes < MaxWrites
    /\ writes' = writes + 1
    /\ \E n \in Names : dl' = Put(dl, n, now)
    /\ UNCHANGED <<pc, now, today, schedVars, cwd, exportVars, loginVars, driver, quitCount, setupLog, stages,
                   failedStage, raisedBy,
                   exc, outcome, returned, url, ar, exportTime, keys, menuStrategies, screenshots, cwdFiles,
                   final_path, archivedAt, reports>>
    /\ PollSame

\* ---------------------------------------------------------------- specification
Next ==
    \/ SetupPrimary
    \/ SetupFallback
    \/ LoginNavigate
    \/ LoginUsername
    \/ LoginContinue
    \/ LoginPassword
    \/ LoginSubmit
    \/ LoginWait
    \/ LoginReturn
    \/ LoginExcept
    \/ ExportNavigate
    \/ ExportDiscover
    \/ ExportClick
    \/ ExportKeys
    \/ ResolverStart
    \/ Poll
    \/ PollTimeout
    \/ KeyboardExcept
    \/ ExportExcept
    \/ get_desktop_path
    \/ ArchiveMove
    \/ MainExcept
    \/ MainFinally
    \/ WriteFile

Spec == Init /\ [][Next]_vars

\* ---------------------------------------------------------------- the archiver alone
\* The archiving step of main() (lines 966-981) run on its own, repeatedly, on
\* the files of the download directory at clock readings drawn from ArchiveDates
\* and ArchiveTimes.
ArchiveDates ==
    { [Y |-> 2024, M |-> 1, D |-> 11], [Y |-> 2024, M |-> 11, D |-> 1],
      [Y |-> 2024, M |-> 12, D |-> 31] }

\* seconds since midnight: 01:11:01, 11:01:01, 23:59:59, and 00:00:05 of the next day
ArchiveTimes == {3600 + 11 * 60 + 1, 11 * 3600 + 60 + 1, 86399, 86400 + 5}

InitArchive ==
    /\ pc = "archive_move"
    /\ today \in ArchiveDates
    /\ now \in {Sec(t) : t \in ArchiveTimes}
    /\ driver = None
    /\ quitCount = 0
    /\ setupLog = <<>>
    /\ stages = <<"Archiver">>
    /\ failedStage = None
    /\ raisedBy = <<>>
    /\ exc = <<>>
    /\ outcome = "running"
    /\ returned = NoPath
    /\ url = <<>>
    /\ dl = [n \in Names |-> - Sec(LeftoverAge[n])]
    /\ ar = [exists |-> TRUE, files |-> {}]
    /\ downloaded_file \in DOMAIN dl
    /\ wait_time = 0
    /\ polls = 0
    /\ allStale = TRUE
    /\ exportTime = -1
    /\ keys = <<>>
    /\ screenshots = <<>>
    /\ cwd = script_dir
    /\ cwdFiles = {}
    /\ final_path = NoPath
    /\ archivedAt = None
    /\ reports = <<>>
    /\ writes = 0
    /\ dom = <<>>
    /\ username_field = NotFound
    /\ continue_button = NotFound
    /\ password_field = NotFound
    /\ login_button = NotFound
    /\ loginLog = <<>>
    /\ menuStrategies = <<>>
    /\ reportsDom = <<>>
    /\ export_button = None
    /\ exportLog = <<>>
    /\ sched = "none"
    /\ runs = 0

\* the archiving step is run again, on another file, at another clock reading
ArchiveAgain ==
    /\ pc = "done"
    /\ outcome = "returned"
    /\ DOMAIN dl # {}
    /\ pc' = "archive_move"
    /\ outcome' = "running"
    /\ returned' = NoPath
    /\ downloaded_file' \in DOMAIN dl
    /\ today' \in ArchiveDates
    /\ now' \in {Sec(t) : t \in ArchiveTimes}
    /\ UNCHANGED <<schedVars, cwd, exportVars, loginVars, driver, quitCount, setupLog, stages, failedStage,
                   raisedBy, exc, url, wait_time, polls, allStale, exportTime, keys,
                                  menuStrategies, screenshots, cwdFiles, final_path,
                   archivedAt, reports>>
    /\ FsSame

NextArchive ==
    \/ ArchiveMove
    \/ MainExcept
    \/ MainFinally
    \/ ArchiveAgain

SpecArchive == InitArchive /\ [][NextArchive]_vars

\* ---------------------------------------------------------------- login_to_redbeam alone
\* main() up to the return of login_to_redbeam(), on any document of at most
\* MaxElems elements of ElementPool
LoginNavigateAny == LoginNavigateOn(Pages)

LoginContinueAny == LoginContinueOn(Pages, BOOLEAN)

InitLogin ==
    /\ Init
    /\ DOMAIN dl = {}
    /\ ~ar.exists

NextLogin ==
    \/ SetupPrimary
    \/ SetupFallback
    \/ LoginNavigateAny
    \/ LoginUsername
    \/ LoginContinueAny
    \/ LoginPassword
    \/ LoginSubmit
    \/ LoginWait
    \/ LoginReturn
    \/ LoginExcept
    \/ MainExcept
    \/ MainFinally

SpecLogin == InitLogin /\ [][NextLogin]_vars

\* ---------------------------------------------------------------- export-control discovery alone
\* main() up to the click on the export button, on any Reports page of at most
\* MaxButtons buttons of ButtonPool, with any of the strategies raising
ExportDiscoverAny == ExportDiscoverOn(ReportPages, SUBSET {1, 2, 3})

InitExport ==
    /\ Init
    /\ DOMAIN dl = {}
    /\ ~ar.exists

NextExport ==
    \/ SetupPrimary
    \/ SetupFallback
    \/ LoginNavigate
    \/ LoginUsername
    \/ LoginContinue
    \/ LoginPassword
    \/ LoginSubmit
    \/ LoginWait
    \/ LoginReturn
    \/ LoginExcept
    \/ ExportNavigate
    \/ ExportDiscoverAny
    \/ ExportClick
    \/ ExportExcept
    \/ MainExcept
    \/ MainFinally

SpecExport == InitExport /\ [][NextExport]_vars

\* ---------------------------------------------------------------- the working directory
\* main() started in any working directory, the output directory included (it
\* then exists), with every leftover file in the download directory
InitCwd ==
    /\ pc = "main"
    /\ cwd \in {script_dir, output_dir}
    /\ \E c \in StartClocks : today = c.date /\ now = Sec(c.tod)
    /\ driver = None
    /\ quitCount = 0
    /\ setupLog = <<>>
    /\ stages = <<>>
    /\ failedStage = None
    /\ raisedBy = <<>>
    /\ exc = <<>>
    /\ outcome = "running"
    /\ returned = NoPath
    /\ url = <<>>
    /\ dl = [n \in Names |-> now - Sec(LeftoverAge[n])]
    /\ \E e \in BOOLEAN : ar = [exists |-> e \/ cwd = output_dir, files |-> {}]
    /\ downloaded_file = None
    /\ wait_time = 0
    /\ polls = 0
    /\ allStale = TRUE
    /\ exportTime = -1
    /\ keys = <<>>
    /\ screenshots = <<>>
    /\ cwdFiles = {}
    /\ final_path = NoPath
    /\ archivedAt = None
    /\ reports = <<>>
    /\ writes = 0
    /\ dom = <<>>
    /\ username_field = NotFound
    /\ continue_button = NotFound
    /\ password_field = NotFound
    /\ login_button = NotFound
    /\ loginLog = <<>>
    /\ menuStrategies = <<>>
    /\ reportsDom = <<>>
    /\ export_button = None
    /\ exportLog = <<>>
    /\ sched = "none"
    /\ runs = 0

SpecCwd == InitCwd /\ [][Next]_vars

\* ---------------------------------------------------------------- schedule_daily.py
\* The scheduler process: schedule.every().day.at("09:00").do(main), then
\* `while True: schedule.run_pending(); time.sleep(60)`.  run_pending() calls
\* main() when the job is due and does not catch what main() raises; the loop
\* is left by any exception, and only KeyboardInterrupt is handled.
InitSchedule ==
    /\ pc = "idle"
    /\ \E c \in StartClocks : today = c.date /\ now = Sec(c.tod)
    /\ sched = "waiting"
    /\ runs = 0
    /\ driver = None
    /\ quitCount = 0
    /\ setupLog = <<>>
    /\ stages = <<>>
    /\ failedStage = None
    /\ raisedBy = <<>>
    /\ exc = <<>>
    /\ outcome = "running"
    /\ returned = NoPath
    /\ url = <<>>
    /\ dl = [n \in {} |-> 0]
    /\ ar = [exists |-> FALSE, files |-> {}]
    /\ downloaded_file = None
    /\ wait_time = 0
    /\ polls = 0
    /\ allStale = TRUE
    /\ exportTime = -1
    /\ keys = <<>>
    /\ menuStrategies = <<>>
    /\ reportsDom = <<>>
    /\ export_button = None
    /\ exportLog = <<>>
    /\ screenshots = <<>>
    /\ cwd = script_dir
    /\ cwdFiles = {}
    /\ final_path = NoPath
    /\ archivedAt = None
    /\ reports = <<>>
    /\ writes = 0
    /\ dom = <<>>
    /\ username_field = NotFound
    /\ continue_button = NotFound
    /\ password_field = NotFound
    /\ login_button = NotFound
    /\ loginLog = <<>>

\* the download of the export: the browser writes the file after the ENTER key
\* event, before the first scan of the polling loop
BrowserDownload ==
    /\ pc = "export_resolve"
    /\ writes < MaxWrites
    /\ writes' = writes + 1
    /\ \E n \in Names : dl' = Put(dl, n, now)
    /\ UNCHANGED <<pc, now, today, schedVars, cwd, exportVars, loginVars, driver, quitCount, setupLog, stages,
                   failedStage, raisedBy, exc, outcome, returned, url, ar, exportTime, keys,
                   menuStrategies, screenshots, cwdFiles, final_path, archivedAt, reports>>
    /\ PollSame

\* line 25, the job is due: run_pending() calls main(); 09:00 of the day after
\* the previous run (the first run: of the day after the scheduler was started)
RunPending ==
    /\ sched = "waiting"
    /\ pc \in {"idle", "done"}
    /\ runs < MaxRuns
    /\ runs' = runs + 1
    /\ sched' = "running"
    /\ now' = Sec((runs + 1) * 86400 + 9 * 3600)
    /\ pc' = "main"
    /\ driver' = None
    /\ quitCount' = 0
    /\ setupLog' = <<>>
    /\ stages' = <<>>
    /\ failedStage' = None
    /\ raisedBy' = <<>>
    /\ exc' = <<>>
    /\ outcome' = "running"
    /\ returned' = NoPath
    /\ url' = <<>>
    /\ downloaded_file' = None
    /\ wait_time' = 0
    /\ polls' = 0
    /\ allStale' = TRUE
    /\ exportTime' = -1
    /\ keys' = <<>>
    /\ menuStrategies' = <<>>
    /\ reportsDom' = <<>>
    /\ export_button' = None
    /\ exportLog' = <<>>
    /\ screenshots' = <<>>
    /\ final_path' = NoPath
    /\ archivedAt' = None
    /\ writes' = 0
    /\ dom' = <<>>
    /\ username_field' = NotFound
    /\ continue_button' = NotFound
    /\ password_field' = NotFound
    /\ login_button' = NotFound
    /\ loginLog' = <<>>
    /\ UNCHANGED <<today, cwd, cwdFiles, dl, ar, reports>>

\* everything but the scheduler's own state
runVars ==
    <<pc, now, today, cwd, exportVars, loginVars, driver, quitCount, setupLog, stages, failedStage, raisedBy,
      exc, outcome, returned, url, dl, ar, downloaded_file, wait_time, polls, allStale,
      exportTime, keys, menuStrategies, screenshots, cwdFiles, final_path, archivedAt, reports, writes>>

\* main() returned: run_pending() returns, the loop sleeps 60 s and goes on
JobReturns ==
    /\ sched = "running"
    /\ pc = "done"
    /\ outcome = "returned"
    /\ sched' = "waiting"
    /\ UNCHANGED <<runs, runVars>>

\* main() raised: the exception leaves run_pending() and the `while True` loop;
\* it is not a KeyboardInterrupt, the process ends with a traceback
JobRaises ==
    /\ sched = "running"
    /\ pc = "done"
    /\ outcome = "raised"
    /\ sched' = "crashed"
    /\ UNCHANGED <<runs, runVars>>

\* lines 27-28: Ctrl+C during time.sleep(60)
KeyboardInterrupt ==
    /\ sched = "waiting"
    /\ sched' = "stopped"
    /\ UNCHANGED <<runs, runVars>>

NextSchedule ==
    \/ SetupPrimary
    \/ SetupFallback
    \/ LoginNavigate
    \/ LoginUsername
    \/ LoginContinue
    \/ LoginPassword
    \/ LoginSubmit
    \/ LoginWait
    \/ LoginReturn
    \/ LoginExcept
    \/ ExportNavigate
    \/ ExportDiscover
    \/ ExportClick
    \/ ExportKeys
    \/ ResolverStart
    \/ Poll
    \/ PollTimeout
    \/ KeyboardExcept
    \/ ExportExcept
    \/ get_desktop_path
    \/ ArchiveMove
    \/ MainExcept
    \/ MainFinally
    \/ BrowserDownload
    \/ RunPending
    \/ JobReturns
    \/ JobRaises
    \/ KeyboardInterrupt

SpecSchedule == InitSchedule /\ [][NextSchedule]_vars

\* ================================================================ properties
Finished == outcome # "running"

\* C1: in every run in which setup_driver() returned a session, driver.quit() is
\* called exactly once by the time main() returns or raises, whichever stage
\* failed or none; it is never called twice, and never without a session.
C1_TeardownExactlyOnce ==
    /\ quitCount <= 1
    /\ (Finished /\ driver # None) => quitCount = 1
    /\ quitCount = 1 => (driver # None /\ Finished)

C1_Witness ==
    /\ Finished
    /\ outcome = "raised"
    /\ failedStage = "DownloadResolver"
    /\ driver # None
    /\ quitCount = 1

StageOrder == <<"SessionInitializer", "Authenticator", "ReportNavigator", "ExportTrigger",
                "DownloadResolver", "Archiver">>

\* C2: the stages start only in the order Session Initializer, Authenticator,
\* Report Navigator, Export Trigger, Download Resolver, Archiver; once a stage
\* has failed it is the last stage started, and main() ends raising, without a path;
\* main() returns only after all six stages, none of which failed.
C2_StagesInOrderAbortOnFailure ==
    /\ \E k \in 0..Len(StageOrder) : stages = SubSeq(StageOrder, 1, k)
    /\ failedStage # None => (stages # <<>> /\ stages[Len(stages)] = failedStage)
    /\ (Finished /\ failedStage # None) => (outcome = "raised" /\ returned = NoPath)
    /\ outcome = "returned" => (failedStage = None /\ stages = StageOrder)

C2_Witness ==
    /\ Finished
    /\ failedStage = "ReportNavigator"
    /\ stages = SubSeq(StageOrder, 1, 3)
    /\ outcome = "raised"

\* host of a URL
OnAppDomain(u) == Len(u) >= 3 /\ SubSeq(u, 1, 3) = <<"app", "redbeam", "com">>
OnLoginDomain(u) == Len(u) >= 4 /\ SubSeq(u, 1, 4) = <<"login", "app", "redbeam", "com">>

\* C3: whenever login_to_redbeam() has returned True, the browser is on the
\* application domain app.redbeam.com and not on the login domain.
C3_LoginSuccessOnAppDomain ==
    pc = "export" => (OnAppDomain(url) /\ ~OnLoginDomain(url))

\* C4: a file the polling loop accepts is, at the scan that accepts it, a .csv
\* file of the download directory, modified less than 60 seconds ago, and no
\* .csv file of the directory was modified later.
C4_AcceptedFreshAndMostRecent ==
    [][ (pc = "export_poll" /\ downloaded_file' # downloaded_file) =>
            LET f == downloaded_file' IN
            /\ f \in DOMAIN dl
            /\ f[2] = "csv"
            /\ now - dl[f] < 600
            /\ \A g \in DOMAIN dl : g[2] = "csv" => dl[g] <= dl[f] ]_vars

C4_Witness ==
    /\ pc = "archive"
    /\ downloaded_file \in DOMAIN dl
    /\ \E g \in DOMAIN dl : g # downloaded_file /\ g[2] = "csv" /\ now - dl[g] >= 600
    /\ \E g \in DOMAIN dl : g[2] # "csv"

ResolverEnded == Len(stages) >= 5 /\ pc # "export_poll"

\* C5: if every scan of the polling loop saw no .csv file or only .csv files
\* older than 60 seconds, the loop returns no file: it does its 30 scans, 60
\* seconds of waiting, and raises "CSV file not found in Downloads folder", and
\* main() does not return a path.
C5_OnlyStaleFilesTimesOut ==
    (ResolverEnded /\ allStale) =>
        /\ downloaded_file = None
        /\ polls = 30
        /\ wait_time = 60
        /\ failedStage = "DownloadResolver"
        /\ raisedBy = <<"CSV file not found in Downloads folder after keyboard navigation">>
        /\ outcome # "returned"

C5_Witness ==
    /\ pc = "done"
    /\ ResolverEnded
    /\ allStale
    /\ outcome = "raised"
    /\ \E g \in DOMAIN dl : g[2] = "csv"
    /\ exc = <<"Failed to download CSV using keyboard navigation",
               "CSV file not found in Downloads folder after keyboard navigation">>

\* C6: the file the polling loop returns was written after this run sent the
\* export command (the ENTER key event); a .csv file that was in the download
\* directory before that is never returned.
C6_ReturnedFileIsNew ==
    (pc = "archive" /\ downloaded_file \in DOMAIN dl) => dl[downloaded_file] >= exportTime

DigitValue(c) ==
    CASE c = "0" -> 0 [] c = "1" -> 1 [] c = "2" -> 2 [] c = "3" -> 3 [] c = "4" -> 4
      [] c = "5" -> 5 [] c = "6" -> 6 [] c = "7" -> 7 [] c = "8" -> 8 [] c = "9" -> 9

RECURSIVE Decimal(_)
Decimal(ds) ==
    IF ds = <<>> THEN 0
    ELSE 10 * Decimal(SubSeq(ds, 1, Len(ds) - 1)) + DigitValue(ds[Len(ds)])

\* name is redbeam_data_YYYYMMDD_HHMMSS.csv for the date and time T
IsReportNameOf(name, T) ==
    /\ Len(name) = 17
    /\ name[1] = "redbeam_data_"
    /\ name[17] = ".csv"
    /\ name[10] = "_"
    /\ \A i \in (2..9) \cup (11..16) : name[i] \in {Digit(d) : d \in 0..9}
    /\ Decimal(SubSeq(name, 2, 5)) = T.Y
    /\ Decimal(SubSeq(name, 6, 7)) = T.M
    /\ Decimal(SubSeq(name, 8, 9)) = T.D
    /\ Decimal(SubSeq(name, 11, 12)) = T.h
    /\ Decimal(SubSeq(name, 13, 14)) = T.m
    /\ Decimal(SubSeq(name, 15, 16)) = T.s

\* C7: when shutil.move succeeds with the clock reading T, final_path is
\* <output_dir>/redbeam_data_<T as YYYYMMDD_HHMMSS>.csv, the output directory
\* holds a file of that name with the content of the downloaded file, the
\* downloaded file is gone from the download directory, and final_path is what
\* main() returns.
C7_ArchivedUnderTimestampAndMoved ==
    /\ [][ (pc = "archive_move" /\ pc' = "main_finally") =>
            /\ final_path'.dir = output_dir
            /\ IsReportNameOf(final_path'.name, DatetimeNow(today, now))
            /\ ar'.exists
            /\ [name |-> final_path'.name, content |-> <<downloaded_file, dl[downloaded_file]>>]
                    \in ar'.files
            /\ downloaded_file \notin DOMAIN dl' ]_vars
    /\ [](outcome = "returned" => (returned = final_path /\ final_path # NoPath))

C7_Witness ==
    /\ outcome = "returned"
    /\ returned = [dir |-> output_dir,
                   name |-> <<"redbeam_data_", "2", "0", "2", "5", "0", "1", "0", "1", "_",
                              "0", "0", "0", "0", "0", "5", ".csv">>]
    /\ \E f \in ar.files : f.name = returned.name
    /\ downloaded_file \notin DOMAIN dl

\* C8: two runs of the archiving step at clock readings that differ in their
\* second never produce the same file name, and a report archived at a reading
\* no other run had is still in the output directory, with its content.
C8_DistinctSecondsDistinctNames ==
    exc = <<>> =>
        \A i \in 1..Len(reports) :
            /\ \A j \in 1..Len(reports) :
                    reports[i].at # reports[j].at => reports[i].name # reports[j].name
            /\ (\A j \in 1..Len(reports) : j # i => reports[j].at # reports[i].at) =>
                    [name |-> reports[i].name, content |-> reports[i].content] \in ar.files

C8_Witness ==
    /\ Len(reports) = 2
    /\ reports[1].at = [Y |-> 2024, M |-> 1, D |-> 11, h |-> 1, m |-> 11, s |-> 1]
    /\ reports[2].at = [Y |-> 2024, M |-> 11, D |-> 1, h |-> 1, m |-> 11, s |-> 1]
    /\ reports[1].content # reports[2].content
    /\ Cardinality(ar.files) = 2

\* C9: when creating the output directory fails or shutil.move fails, main()
\* ends by raising that error: it returns no path.
C9_ArchiveFailurePropagates ==
    (Finished /\ failedStage = "Archiver") =>
        /\ outcome = "raised"
        /\ returned = NoPath
        /\ exc = <<"OSError">>

C9_Witness ==
    /\ Finished
    /\ failedStage = "Archiver"
    /\ ar.exists
    /\ ar.files = {}
    /\ outcome = "raised"

PrimaryFailed == setupLog # <<>> /\ setupLog[1] = <<"webdriver-manager", FALSE>>
SetupEnded == pc \notin {"main", "setup_fallback"}

\* C10: setup_driver() tries the system driver if and only if the
\* webdriver-manager driver failed, tries each at most once, returns the session
\* of the first that succeeds, and when both fail it raises and no later stage
\* is started.
C10_FallbackIffPrimaryFailed ==
    /\ setupLog \in { <<>>,
                      << <<"webdriver-manager", TRUE>> >>,
                      << <<"webdriver-manager", FALSE>> >>,
                      << <<"webdriver-manager", FALSE>>, <<"system", TRUE>> >>,
                      << <<"webdriver-manager", FALSE>>, <<"system", FALSE>> >> }
    /\ (SetupEnded /\ PrimaryFailed) => Len(setupLog) = 2
    /\ driver = "webdriver-manager" <=> setupLog = << <<"webdriver-manager", TRUE>> >>
    /\ driver = "system" <=> (PrimaryFailed /\ Len(setupLog) = 2 /\ setupLog[2] = <<"system",
                   TRUE>>)
    /\ (PrimaryFailed /\ Len(setupLog) = 2 /\ setupLog[2] = <<"system", FALSE>>) =>
            /\ driver = None
            /\ stages = <<"SessionInitializer">>
            /\ failedStage = "SessionInitializer"
            /\ Finished => outcome = "raised"

C10_Witness ==
    /\ Finished
    /\ setupLog = << <<"webdriver-manager", FALSE>>, <<"system", FALSE>> >>
    /\ outcome = "raised"
    /\ stages = <<"SessionInitializer">>

Range(s) == {s[i] : i \in DOMAIN s}

\* the searches of lines 180-222 ended without a username field
IdentifierNotFound == <<"find", "username_field", None>> \in Range(loginLog)

\* C11: when neither the list of locators nor the scan of all inputs gives a
\* username field, login_to_redbeam() raises "Username field not found" and has
\* done nothing of the password stage: no Continue click or RETURN, no wait for
\* the password field, no search for it, no password typed, no final submit.
C11_NoIdentifierRaisesBeforePasswordStage ==
    IdentifierNotFound =>
        /\ raisedBy = <<"Username field not found">>
        /\ failedStage = "Authenticator"
        /\ loginLog = << <<"find", "username_field", None>> >>
        /\ continue_button = NotFound
        /\ password_field = NotFound
        /\ login_button = NotFound
        /\ pc \in {"login_except", "main_except", "main_finally", "done"}

\* visible and enabled
Usable(e) == e.displayed /\ e.enabled

\* visible, enabled and not of type password
UsableIdentifier(e) == Usable(e) /\ get_type(e) # <<"password">>

\* the locator matches an element of the page that U accepts
HasMatch(page, sel, U(_)) == \E i \in 1..Len(page) : Matches(sel, page[i]) /\ U(page[i])

\* if a locator of the list has a match that U accepts, the selection s is, of
\* the first such locator of the list, the first such match in document order
FirstOfEarliest(s, page, selectors, U(_)) ==
    (\E k \in 1..Len(selectors) : HasMatch(page, selectors[k], U)) =>
        \E k \in 1..Len(selectors) :
            /\ HasMatch(page, selectors[k], U)
            /\ \A j \in 1..(k - 1) : ~HasMatch(page, selectors[j], U)
            /\ s.via = k
            /\ \E i \in 1..Len(page) :
                /\ page[i].el = s.el
                /\ Matches(selectors[k], page[i]) /\ U(page[i])
                /\ \A h \in 1..(i - 1) : ~(Matches(selectors[k], page[h]) /\ U(page[h]))

\* C12 as claimed: for each of the four lists of locators (username, Continue,
\* password, login button), when locators of the list match visible and enabled
\* elements, the element selected is the first visible and enabled match of the
\* earliest such locator.
C12_FirstUsableOfEarliestLocator ==
    [][ /\ (pc = "login_username" /\ pc' # pc) =>
                FirstOfEarliest(username_field', Document(dom), username_selectors, Usable)
        /\ (pc = "login_continue" /\ pc' # pc) =>
                FirstOfEarliest(continue_button', Document(dom), continue_button_selectors, Usable)
        /\ (pc = "login_password" /\ pc' # pc) =>
                FirstOfEarliest(password_field', Document(dom), password_selectors, Usable)
        /\ (pc = "login_submit" /\ pc' # pc) =>
                FirstOfEarliest(login_button', Document(dom), login_button_selectors, Usable) ]_vars

\* C12, amended: the same, where for the username list an element counts as a
\* match only if it is also not of type password (line 192).
C12_FirstAcceptedOfEarliestLocator ==
    [][ /\ (pc = "login_username" /\ pc' # pc) =>
                FirstOfEarliest(username_field', Document(dom), username_selectors, UsableIdentifier)
        /\ (pc = "login_continue" /\ pc' # pc) =>
                FirstOfEarliest(continue_button', Document(dom), continue_button_selectors, Usable)
        /\ (pc = "login_password" /\ pc' # pc) =>
                FirstOfEarliest(password_field', Document(dom), password_selectors, Usable)
        /\ (pc = "login_submit" /\ pc' # pc) =>
                FirstOfEarliest(login_button', Document(dom), login_button_selectors, Usable) ]_vars

\* the first locator gives the second element of the document, the first
\* element is matched by the ninth locator only
C12_Witness ==
    /\ pc = "login_continue"
    /\ dom = <<"e_passport", "e_username">>
    /\ username_field = [el |-> "e_username", via |-> 1]

\* C13: in a run in which none of the three strategies finds the export
\* control, save_screenshot is called exactly once, "Export button not found on
\* Reports page" is raised, main() raises, and driver.quit() is called.
C13_ExportControlNotFoundOneScreenshot ==
    (Finished /\ "export_button_not_found.png" \in Range(screenshots)) =>
        /\ Len(screenshots) = 1
        /\ raisedBy = <<"Export button not found on Reports page">>
        /\ failedStage = "ExportTrigger"
        /\ outcome = "raised"
        /\ quitCount = 1

\* C14: when a stage raised E and a screenshot taken while E is handled fails,
\* what main() raises is still E (alone, or quoted by the exception of line 712).
C14_DiagnosticFailureKeepsError ==
    (Finished /\ raisedBy # <<>>) =>
        /\ outcome = "raised"
        /\ exc # <<>>
        /\ exc[Len(exc)] = raisedBy[1]

\* C15: whenever main() raises after setup_driver() returned a session,
\* whichever later stage failed, save_screenshot was called at least once
\* before, and driver.quit() was called.
C15_ScreenshotBeforeEveryFailure ==
    (Finished /\ outcome = "raised" /\ driver # None) =>
        /\ screenshots # <<>>
        /\ quitCount = 1

\* C16: no stage is started twice in a run, the two strategies of setup_driver
\* are tried at most once each, the menu is worked once, and once a stage has
\* raised no stage runs any more: the run is in a handler, or over.
C16_NoStageRetried ==
    /\ \A i, j \in 1..Len(stages) : stages[i] = stages[j] => i = j
    /\ Len(setupLog) <= 2
    /\ Len(menuStrategies) <= 1
    /\ Len(keys) <= 4
    /\ Cardinality({i \in 1..Len(loginLog) : loginLog[i][1] = "find"}) <= 4
    /\ failedStage # None =>
            pc \in {"login_except", "keyboard_except", "export_except", "main_except",
                    "main_finally", "done"}

C16_Witness ==
    /\ Finished
    /\ failedStage = "ExportTrigger"
    /\ stages = SubSeq(StageOrder, 1, 4)
    /\ keys = <<"ARROW_DOWN", "ARROW_DOWN">>
    /\ Len(screenshots) = 2
    /\ outcome = "raised"

\* C17: after a run of main() that raised, the scheduler process is still
\* there, waiting for the next day's 09:00 (or stopped by the user with Ctrl+C).
C17_SchedulerSurvivesFailedRun ==
    (pc = "done" /\ outcome = "raised" /\ sched # "running") => sched \in {"waiting", "stopped"}

\* C18: when the browser is on the login domain login.app.redbeam.com before
\* and after the wait that follows the submit, login_to_redbeam() goes to its
\* handler (screenshot, raise): it does not return.
C18_StillOnLoginDomainFails ==
    [][ (pc = "login_wait" /\ pc' # pc /\ OnLoginDomain(url) /\ OnLoginDomain(url')) =>
            pc' = "login_except" ]_vars

\* C19: the key events sent are ARROW_DOWN, ARROW_DOWN, ARROW_DOWN, ENTER, in
\* that order and no others; none is sent before the export control was
\* clicked, and all four were sent before the polling loop's first scan.
C19_ThreeDownsThenEnter ==
    /\ keys \in { <<>>, <<"ARROW_DOWN">>, <<"ARROW_DOWN", "ARROW_DOWN">>,
                  <<"ARROW_DOWN", "ARROW_DOWN", "ARROW_DOWN">>,
                  <<"ARROW_DOWN", "ARROW_DOWN", "ARROW_DOWN", "ENTER">> }
    /\ pc \in {"main", "setup_fallback", "login", "login_username", "login_continue",
               "login_password", "login_submit", "login_wait", "login_return", "login_except",
               "export", "export_discover", "export_click", "export_keys"} => keys = <<>>
    /\ (pc \in {"export_resolve", "export_poll"} \/ polls > 0 \/ downloaded_file # None) =>
            /\ keys = <<"ARROW_DOWN", "ARROW_DOWN", "ARROW_DOWN", "ENTER">>
            /\ exportTime >= 0

C19_Witness ==
    /\ pc = "export_poll"
    /\ polls = 1
    /\ keys = <<"ARROW_DOWN", "ARROW_DOWN", "ARROW_DOWN", "ENTER">>
    /\ exportTime = now - Sec(5 + poll_sleep)

\* C20: when the keyboard way of choosing the CSV entry has not given a file,
\* the export stage does not fail before the other way, the search for an
\* element whose text names CSV, has been tried.
C20_ContentMatchingTriedBeforeFailure ==
    (pc = "export_except" /\ "keyboard" \in Range(menuStrategies) /\ downloaded_file = None) =>
        "content" \in Range(menuStrategies)

\* ---------------------------------------------------------------- export-control discovery
\* the discovery attempts of the run, and its clicks on the export control
Attempts == SelectSeq(exportLog, LAMBDA e : e[1] # "click")

Clicks == SelectSeq(exportLog, LAMBDA e : e[1] = "click")

IsDisplayedButton(el, page) ==
    \E i \in 1..Len(page) : page[i] = el /\ Buttons(page)[i].displayed

\* C21: the discovery strategies run in the order 1, 2, 3; a strategy runs only
\* if every strategy before it yielded no element; what a strategy yields is a
\* displayed button of the page; and the control that is clicked is the one
\* yielded by the earliest strategy that yielded one.
C21_StrategiesInOrderEarliestWins ==
    LET a == Attempts IN
    /\ Len(a) <= 3
    /\ \A i \in 1..Len(a) :
        /\ a[i][2] = i
        /\ i < Len(a) => a[i][3] = None
        /\ a[i][3] # None => IsDisplayedButton(a[i][3], reportsDom)
    /\ pc \in {"export_click", "export_keys"} =>
        /\ Len(a) > 0
        /\ a[Len(a)][3] # None
        /\ export_button = a[Len(a)][3]
    /\ \A c \in 1..Len(Clicks) :
        /\ Len(a) > 0
        /\ Clicks[c][3] # None
        /\ Clicks[c][3] = a[Len(a)][3]

\* strategy 3 chose the button, by a selector that comes before the one that
\* matches the first button of the page, and the button was clicked
C21_Witness ==
    /\ reportsDom = <<"x_download", "x_iconclass">>
    /\ Len(Attempts) = 3
    /\ Len(Clicks) = 1
    /\ Clicks[1][3] = "x_iconclass"

\* ---------------------------------------------------------------- the submit steps of the login
\* a click, or a RETURN key-press
IsSubmitAction(e) == e[1] = "click" \/ (e[1] = "send_keys" /\ e[3] = "RETURN")

IsFindButton(e) == e[1] = "find" /\ e[2] \in {"continue_button", "login_button"}

\* the element into which the text was typed, "None" if it was not typed yet
TypedInto(text) ==
    IF \E i \in 1..Len(loginLog) : loginLog[i][1] = "send_keys" /\ loginLog[i][3] = text
    THEN loginLog[CHOOSE i \in 1..Len(loginLog) :
                      loginLog[i][1] = "send_keys" /\ loginLog[i][3] = text][2]
    ELSE None

PoolElement(el) == CHOOSE e \in ElementPool : e.el = el

\* C22: each search for a submit control (Continue after the identifier, the
\* login button after the password) is followed by exactly one submit action:
\* a click on the control found, which is displayed, if one was found, and
\* otherwise a RETURN on the field just filled in (the identifier field at the
\* first step, the password field at the second); no other submit action is made.
C22_ExactlyOneSubmitActionPerStep ==
    /\ \A i \in 1..Len(loginLog) :
        IsFindButton(loginLog[i]) =>
            /\ i < Len(loginLog)
            /\ IsSubmitAction(loginLog[i + 1])
            /\ i + 2 <= Len(loginLog) => ~IsSubmitAction(loginLog[i + 2])
            /\ IF loginLog[i][3] # None
               THEN /\ loginLog[i + 1] = <<"click", loginLog[i][3], "">>
                    /\ PoolElement(loginLog[i][3]).displayed
               ELSE loginLog[i + 1] =
                        <<"send_keys",
                          IF loginLog[i][2] = "continue_button"
                          THEN TypedInto("REDBEAM_USERNAME") ELSE TypedInto("REDBEAM_PASSWORD"),
                          "RETURN">>
    /\ \A i \in 1..Len(loginLog) :
        IsSubmitAction(loginLog[i]) => i > 1 /\ IsFindButton(loginLog[i - 1])
    /\ Cardinality({i \in 1..Len(loginLog) : IsSubmitAction(loginLog[i])}) <= 2

\* both steps were made, the first by a click on the Continue button, the second
\* by RETURN on the password field because the password page has no button
C22_Witness ==
    /\ pc = "login_wait"
    /\ continue_button # NotFound
    /\ login_button = NotFound
    /\ \E i \in 1..Len(loginLog) : loginLog[i] = <<"send_keys", password_field.el, "RETURN">>

\* ---------------------------------------------------------------- the wait for the password field
\* the wait of lines 299-304 was the last thing done, and it timed out
PasswordWaitTimedOut ==
    /\ loginLog # <<>>
    /\ loginLog[Len(loginLog)] = <<"wait", "input[type='password']", "TimeoutException">>

\* C23: the Continue step never raises, whether or not its wait for the password
\* field timed out; after a timeout the search for the password field is made
\* all the same, and login_to_redbeam() raises there exactly if the search
\* finds no field, and otherwise types the password.
C23_PasswordWaitTimeoutNotFatal ==
    [][ /\ pc = "login_continue" => (pc' = "login_password" /\ exc' = <<>>)
        /\ PasswordWaitTimedOut =>
            /\ pc = "login_password"
            /\ exc = <<>>
            /\ Len(loginLog') > Len(loginLog)
            /\ loginLog'[Len(loginLog) + 1] = <<"find", "password_field", password_field'.el>>
            /\ password_field' = find_password_field(Document(dom))
            /\ IF password_field' = NotFound
               THEN /\ pc' = "login_except"
                    /\ exc' = <<"Password field not found after clicking Continue">>
               ELSE /\ pc' = "login_submit"
                    /\ exc' = <<>>
                    /\ loginLog'[Len(loginLog')] =
                            <<"send_keys", password_field'.el, "REDBEAM_PASSWORD">>
      ]_vars

\* the wait timed out, and the password was typed into a field found afterwards
C23_Witness ==
    /\ pc = "login_submit"
    /\ \E i \in 1..Len(loginLog) :
        loginLog[i] = <<"wait", "input[type='password']", "TimeoutException">>
    /\ password_field.el = "e_password"
    /\ TypedInto("REDBEAM_PASSWORD") = "e_password"

\* ---------------------------------------------------------------- the password field
\* C24: the element into which the password is typed is an <input> whose type
\* is 'password', whichever locator of the list, or the scan by type, selected it.
C24_PasswordTypedIntoPasswordInput ==
    TypedInto("REDBEAM_PASSWORD") # None =>
        /\ PoolElement(TypedInto("REDBEAM_PASSWORD")).tag = "input"
        /\ get_type(PoolElement(TypedInto("REDBEAM_PASSWORD"))) = <<"password">>

\* ---------------------------------------------------------------- the Reports page does not load
NavigationTimedOut == failedStage = "ReportNavigator" /\ raisedBy = <<"TimeoutException">>

\* C25: when a wait for the Reports page (30 s) times out, the Report Navigator
\* raises TimeoutException and the run goes to the handlers only: no discovery
\* strategy is run, no export control is found or clicked, no key event of the
\* menu is sent, no later stage starts, and main() does not return a path.
C25_NavigationTimeoutStopsExport ==
    NavigationTimedOut =>
        /\ pc \in {"export_except", "main_except", "main_finally", "done"}
        /\ stages[Len(stages)] = "ReportNavigator"
        /\ exportLog = <<>>
        /\ export_button = None
        /\ keys = <<>>
        /\ menuStrategies = <<>>
        /\ polls = 0
        /\ outcome # "returned"
        /\ Finished => outcome = "raised"

C25_Witness ==
    /\ pc = "done"
    /\ NavigationTimedOut
    /\ outcome = "raised"
    /\ "export_error.png" \in Range(screenshots)

\* ---------------------------------------------------------------- the polling loop ends
\* C26: every step taken inside the polling loop either leaves the loop with a
\* file, or leaves it by raising after exactly max_wait / 2 = 30 scans and 60
\* seconds of waiting, or is an unsuccessful scan followed by a 2-second sleep
\* that is counted in wait_time; wait_time never exceeds 60 and the scans never
\* exceed 30, so the loop cannot go on forever.  (A file written by another
\* program while the loop sleeps is not a step of the loop.)
C26_PollingLoopBounded ==
    [][ pc = "export_poll" =>
          /\ wait_time <= max_wait
          /\ polls <= max_wait \div poll_sleep
          /\ wait_time = poll_sleep * polls
          /\ \/ /\ pc' = "archive"
                /\ downloaded_file' \in DOMAIN dl
                /\ polls' = polls + 1
                /\ exc' = <<>>
             \/ /\ pc' = "keyboard_except"
                /\ exc' = <<"CSV file not found in Downloads folder after keyboard navigation">>
                /\ polls = max_wait \div poll_sleep
                /\ wait_time = max_wait
                /\ downloaded_file' = None
             \/ /\ pc' = "export_poll"
                /\ polls' = polls + 1
                /\ wait_time' = wait_time + poll_sleep
                /\ wait_time' <= max_wait
                /\ now' = now + Sec(poll_sleep)
                /\ downloaded_file' = None
             \/ /\ pc' = "export_poll"
                /\ writes' = writes + 1
                /\ UNCHANGED <<polls, wait_time, now>>
      ]_vars

\* the loop ended by raising, after 30 scans
C26_Witness ==
    /\ pc = "keyboard_except"
    /\ polls = max_wait \div poll_sleep
    /\ wait_time = max_wait
    /\ exc = <<"CSV file not found in Downloads folder after keyboard navigation">>

\* ---------------------------------------------------------------- the Authenticator's states
LoginPcs ==
    {"login", "login_username", "login_continue", "login_password", "login_submit",
     "login_wait", "login_return", "login_except"}

\* positions of the log at which the operation was made
LogIndex(log, Test(_)) == {i \in 1..Len(log) : Test(log[i])}

TypedUsername(e) == e[1] = "send_keys" /\ e[3] = "REDBEAM_USERNAME"
TypedPassword(e) == e[1] = "send_keys" /\ e[3] = "REDBEAM_PASSWORD"
ContinueStep(e) == e[1] = "find" /\ e[2] = "continue_button"
FinalSubmit(e) == e[1] = "find" /\ e[2] = "login_button"

\* the state of the Authenticator, read off what login_to_redbeam() has done
AuthState ==
    IF failedStage = "Authenticator" THEN "Failed"
    ELSE IF "Authenticator" \in Range(stages) /\ pc \notin LoginPcs THEN "Authenticated"
    ELSE IF LogIndex(loginLog, FinalSubmit) # {} THEN "Submitted"
    ELSE IF LogIndex(loginLog, ContinueStep) # {} THEN "PasswordStepVisible"
    ELSE IF LogIndex(loginLog, TypedUsername) # {} THEN "IdentifierEntered"
    ELSE "Unauthenticated"

AuthOrder ==
    <<"Unauthenticated", "IdentifierEntered", "PasswordStepVisible", "Submitted",
      "Authenticated">>

AuthRank(st) == CHOOSE i \in 1..Len(AuthOrder) : AuthOrder[i] = st

\* each of the four operations at most once, each after the one before it
OnceAndInOrder(log) ==
    LET u == LogIndex(log, TypedUsername)
        c == LogIndex(log, ContinueStep)
        p == LogIndex(log, TypedPassword)
        f == LogIndex(log, FinalSubmit)
    IN  /\ Cardinality(u) <= 1 /\ Cardinality(c) <= 1
        /\ Cardinality(p) <= 1 /\ Cardinality(f) <= 1
        /\ \A i \in c : \E h \in u : h < i
        /\ \A i \in p : \E h \in c : h < i
        /\ \A i \in f : \E h \in p : h < i

\* C27: the Authenticator moves from a state only to the next one of
\* Unauthenticated, IdentifierEntered, PasswordStepVisible, Submitted,
\* Authenticated, or to Failed; Authenticated and Failed are never left and
\* nothing is done to the login form in them; the identifier, the Continue step,
\* the password and the final submit are each made at most once, in that order.
C27_AuthenticatorMovesForward ==
    [][ /\ AuthState \in {"Authenticated", "Failed"} =>
              /\ AuthState' = AuthState
              /\ loginLog' = loginLog
        /\ AuthState' # AuthState =>
              \/ AuthState' = "Failed"
              \/ AuthRank(AuthState') = AuthRank(AuthState) + 1
        /\ loginLog' # loginLog => OnceAndInOrder(loginLog')
      ]_vars

\* a run that went through every state to Authenticated and on to the end
C27_Witness ==
    /\ pc = "done"
    /\ AuthState = "Authenticated"
    /\ LogIndex(loginLog, FinalSubmit) # {}
    /\ outcome = "returned"

\* ---------------------------------------------------------------- archived reports are kept
\* C28: no step removes or replaces a file of the output directory, whatever
\* the clock readings of the archiving steps, two equal readings included.
C28_ArchivedReportsNeverLost ==
    [][ \A f \in ar.files : f \in ar'.files ]_vars

\* C28, amended: a file of the output directory is removed or replaced only by
\* an archiving step whose clock reading gives the file's own name, that is,
\* the second under which the file was archived; an archiving step at any
\* other second leaves every archived report in place with its content.
C28_ArchivedReportsLostOnlyInSameSecond ==
    [][ \A f \in ar.files :
            f \notin ar'.files =>
                /\ pc = "archive_move"
                /\ IsReportNameOf(f.name, DatetimeNow(today, now))
                /\ \E g \in ar'.files : g.name = f.name /\ g.content # f.content
      ]_vars

\* two reports archived at different seconds, the earlier one still there after
\* the later run ended
C28_Witness ==
    /\ pc = "done"
    /\ Len(reports) = 2
    /\ reports[1].at # reports[2].at
    /\ \A i \in 1..2 : [name |-> reports[i].name, content |-> reports[i].content] \in ar.files

\* ---------------------------------------------------------------- a failed run and the archive
\* the names of the files of the output directory: the archived reports, and
\* what was written under relative names when it is the working directory
FilesOfOutputDir ==
    {f.name : f \in ar.files} \cup (IF cwd = output_dir THEN cwdFiles ELSE {})

FailedBeforeArchiver == failedStage \notin {None, "Archiver"}

FreshCsv == {f \in glob(dl) : now - dl[f] < Sec(freshness)}

\* C30: a scan of the polling loop made while the download directory holds a
\* .csv file less than 60 seconds old ends the loop: the resolver returns at
\* that scan, and what it returns is a most recently modified .csv file, which
\* is itself less than 60 seconds old, whatever older .csv files are there.
C30_FreshFileNeverSkipped ==
    [][ (pc = "export_poll" /\ polls' = polls + 1 /\ FreshCsv # {}) =>
            /\ pc' = "archive"
            /\ downloaded_file' \in FreshCsv
            /\ \A g \in glob(dl) : dl[g] <= dl[downloaded_file']
            /\ exc' = <<>>
            /\ wait_time' = wait_time
      ]_vars

\* the resolver returned the fresh file at a later scan, past a .csv file that
\* is older than 60 seconds
C30_Witness ==
    /\ pc = "archive"
    /\ polls >= 2
    /\ downloaded_file \in FreshCsv
    /\ \E g \in glob(dl) : g # downloaded_file /\ g \notin FreshCsv

====
